---- MODULE Spec2Model ----
(***************************************************************************)
(* DP-SLAM (src/slam.js, lines 383-1009): ancestry tree, distributed map,  *)
(* particle filter, odometry motion model, beam sensor model.              *)
(*                                                                         *)
(* Numbers.  The program computes in floating point; the model computes    *)
(* in exact rationals:                                                     *)
(*   - coordinates and ranges are integers counting half cells (Res = 2),  *)
(*   - angles are integers counting quarter turns (cos, sin in {-1,0,1}),  *)
(*   - the filter weights are integers over the common denominator wden,   *)
(*   - a likelihood is an integer counting thousandths.                    *)
(* Objects.  A dp_node_t object is a handle 0, 1, 2, ... into the heap     *)
(* `nodes` (the handle is the id the node was created with); its           *)
(* modified_cells array is a handle into the heap `arrays`, so that two    *)
(* nodes sharing one array object (line 898) share one entry.              *)
(***************************************************************************)
EXTENDS Integers, Sequences, FiniteSets, TLC

\* ------------------------------------------------------------------------
\* Configuration of the instance under analysis and bounds of the model
\* ------------------------------------------------------------------------
Size == 3           \* dp_slam_t(size, ...): number of particles
ScanSize == 4       \* beam_measurement_model_t(..., size): beams per scan
Samples == 2        \* beam_measurement_model_t(..., samples, ...)
MaxRay == 4         \* beam_measurement_model_t(..., max_ray, ...), half cells
FracNum == 1        \* dp_slam_t(..., frac = 0.5): frac = FracNum / FracDen
FracDen == 2
ElimDen == 100      \* particle_filter_t(..., elimination_factor = 0.01)
A1 == 0             \* odometry_motion_model_t(a1, a2, a3, a4)
A2 == 0
A3 == 1
A4 == 0
Res == 2            \* coordinate units per cell
MaxUpdates == 3     \* number of dp_slam_t.update calls explored
RDen == 4           \* resolution of the resampling draw r = k * n / RDen
MaxChain == 4       \* longest chain below the root that trim is applied to
MaxDeep == 7        \* number of update calls explored with the inputs DeepInputs
MaxCalls == 3       \* number of calls of weight and resample explored on a filter
MaxCoord == 8       \* ray end points have coordinates -1 .. MaxCoord - 1 half cells

NULL == -1          \* JavaScript null (a handle that names no object)
INF == [num |-> 1, den |-> 0]   \* JavaScript Infinity (as a crossing time)

Abs(a) == IF a < 0 THEN -a ELSE a
Max(a, b) == IF a < b THEN b ELSE a

RECURSIVE Gcd(_, _)
Gcd(a, b) == IF b = 0 THEN a ELSE Gcd(b, a % b)

\* ------------------------------------------------------------------------
\* location_t, control_t
\* ------------------------------------------------------------------------
Cos4(a) == CASE a % 4 = 0 -> 1 [] a % 4 = 2 -> -1 [] OTHER -> 0
Sin4(a) == CASE a % 4 = 1 -> 1 [] a % 4 = 3 -> -1 [] OTHER -> 0

Location(x, y, angle) == [x |-> x, y |-> y, angle |-> angle]

\* location_t.add(r, angle): turn first, then advance along the new heading.
LocAdd(loc, r, angle) ==
    LET a == loc.angle + angle
    IN  Location(loc.x + Cos4(a) * r, loc.y + Sin4(a) * r, a)

LocEquals(l1, l2) == l1.x = l2.x /\ l1.y = l2.y /\ l1.angle = l2.angle

\* location_t.distance, squared (in half cells squared).
Distance2(l1, l2) == (l1.x - l2.x) * (l1.x - l2.x) + (l1.y - l2.y) * (l1.y - l2.y)

Control(current, last) == [current |-> current, last |-> last]

Still(control) == LocEquals(control.current, control.last)

\* Math.floor of a coordinate: the cell index.
Floor(c) == c \div Res

\* ------------------------------------------------------------------------
\* sample_normal, prob_normal
\* ------------------------------------------------------------------------
\* sample_normal(mean, variance) = mean + sqrt(-2 variance log u) cos(2 pi v):
\* the mean itself when the variance is 0, and otherwise the mean plus a
\* deviation `dev` that the caller draws from a finite set.
SampleNormal(mean, variance, dev) == IF variance = 0 THEN mean ELSE mean + dev

\* |sqrt(a2) - sqrt(e2)| <= t / 2, decided in integers (a2, e2 >= 0, t >= 0).
WithinHalf(a2, e2, t) ==
    LET s == 4 * a2 + 4 * e2 - t * t
    IN  s <= 0 \/ s * s <= 64 * a2 * e2

\* prob_normal(value, mean, variance) in thousandths, for the sensor variance
\* 1 / (8 pi) cells^2 (density 2 exp(-4 pi d^2) at error d cells), tabulated
\* at the midpoints of error bands a quarter cell wide.  value2 and mean2
\* are the squares of value and mean, in half cells squared.
ProbNormal(value2, mean2) ==
    CASE WithinHalf(value2, mean2, 1) -> 1643
      [] WithinHalf(value2, mean2, 2) -> 342
      [] WithinHalf(value2, mean2, 3) -> 15
      [] OTHER -> 0

\* ------------------------------------------------------------------------
\* odometry_motion_model_t
\* ------------------------------------------------------------------------
\* Math.atan2 on axis-aligned displacements, in quarter turns.
Atan2(dy, dx) ==
    CASE dy = 0 /\ dx >= 0 -> 0
      [] dy > 0 -> 1
      [] dy = 0 /\ dx < 0 -> 2
      [] OTHER -> -1

\* Math.sqrt on a perfect square.
Sqrt(q) == CHOOSE k \in 0..q : k * k = q

\* odometry_motion_model_t.sample(control, location); dev holds the three
\* deviations the calls of sample_normal draw.  A still control returns the
\* location passed in; a moving one returns a new location.
MotionSample(control, location, dev) ==
    IF Still(control) THEN location
    ELSE
      LET dx_bar == control.current.x - control.last.x
          dy_bar == control.current.y - control.last.y
          delta_r1 == Atan2(dy_bar, dx_bar) - control.last.angle
          delta_trans == Sqrt(dx_bar * dx_bar + dy_bar * dy_bar)
          delta_r2 == control.current.angle - control.last.angle - delta_r1
          dhat_r1 == SampleNormal(delta_r1,
                        A1 * delta_r1 * delta_r1 + A2 * delta_trans * delta_trans,
                        dev.r1)
          dhat_trans == SampleNormal(delta_trans,
                        A3 * delta_trans * delta_trans + A4 * delta_r1 * delta_r1
                          + A4 * delta_r2 * delta_r2,
                        dev.trans)
          dhat_r2 == SampleNormal(delta_r2,
                        A1 * delta_r2 * delta_r2 + A2 * delta_trans * delta_trans,
                        dev.r2)
      IN  LocAdd(LocAdd(location, dhat_trans, dhat_r1), 0, dhat_r2)

\* The same call on location objects: locs is the heap of location_t
\* objects (handle -> fields), location the handle passed in, a the
\* coefficients <<a1, a2, a3, a4>>.  The result is the heap after the call
\* and the handle returned.  copy_location allocates the next handle and
\* add assigns the fields of the object it is called on.
CopyLocation(locs, h) == Append(locs, locs[h])

LocationAdd(locs, h, r, angle) == [locs EXCEPT ![h] = LocAdd(@, r, angle)]

\* sample that calls add on the location passed in, without copy_location.
OdometrySampleInPlace(a, locs, control, location, dev) ==
    IF Still(control) THEN [locs |-> locs, ret |-> location]
    ELSE
      LET dx_bar == control.current.x - control.last.x
          dy_bar == control.current.y - control.last.y
          delta_r1 == Atan2(dy_bar, dx_bar) - control.last.angle
          delta_trans == Sqrt(dx_bar * dx_bar + dy_bar * dy_bar)
          delta_r2 == control.current.angle - control.last.angle - delta_r1
          dhat_r1 == SampleNormal(delta_r1,
                        a[1] * delta_r1 * delta_r1 + a[2] * delta_trans * delta_trans,
                        dev.r1)
          dhat_trans == SampleNormal(delta_trans,
                        a[3] * delta_trans * delta_trans + a[4] * delta_r1 * delta_r1
                          + a[4] * delta_r2 * delta_r2,
                        dev.trans)
          dhat_r2 == SampleNormal(delta_r2,
                        a[1] * delta_r2 * delta_r2 + a[2] * delta_trans * delta_trans,
                        dev.r2)
      IN  [locs |-> LocationAdd(LocationAdd(locs, location, dhat_trans, dhat_r1),
                                location, 0, dhat_r2),
           ret |-> location]

OdometrySample(a, locs, control, location, dev) ==
    IF Still(control) THEN [locs |-> locs, ret |-> location]
    ELSE
      LET dx_bar == control.current.x - control.last.x
          dy_bar == control.current.y - control.last.y
          delta_r1 == Atan2(dy_bar, dx_bar) - control.last.angle
          delta_trans == Sqrt(dx_bar * dx_bar + dy_bar * dy_bar)
          delta_r2 == control.current.angle - control.last.angle - delta_r1
          dhat_r1 == SampleNormal(delta_r1,
                        a[1] * delta_r1 * delta_r1 + a[2] * delta_trans * delta_trans,
                        dev.r1)
          dhat_trans == SampleNormal(delta_trans,
                        a[3] * delta_trans * delta_trans + a[4] * delta_r1 * delta_r1
                          + a[4] * delta_r2 * delta_r2,
                        dev.trans)
          dhat_r2 == SampleNormal(delta_r2,
                        a[1] * delta_r2 * delta_r2 + a[2] * delta_trans * delta_trans,
                        dev.r2)
          copied == CopyLocation(locs, location)
          new_location == Len(copied)
      IN  [locs |-> LocationAdd(LocationAdd(copied, new_location, dhat_trans, dhat_r1),
                                new_location, 0, dhat_r2),
           ret |-> new_location]

\* ------------------------------------------------------------------------
\* ray_trace
\* ------------------------------------------------------------------------
\* A crossing time: INF, or the rational num / den with den > 0.
TimeLess(t1, t2) ==
    IF t1.den = 0 THEN FALSE
    ELSE IF t2.den = 0 THEN TRUE
    ELSE t1.num * t2.den < t2.num * t1.den

\* The set-up of ray_trace (lines 527-565): starting cell, cell count n,
\* increments, first crossing offsets (f) and lengths (d) on each axis.
RaySetup(start_location, end_location) ==
    LET x0 == start_location.x
        y0 == start_location.y
        x1 == end_location.x
        y1 == end_location.y
        x == Floor(x0)
        y == Floor(y0)
    IN  [ x |-> x, y |-> y,
          dx |-> Abs(x1 - x0), dy |-> Abs(y1 - y0),
          x_inc |-> IF x1 = x0 THEN 0 ELSE IF x1 > x0 THEN 1 ELSE -1,
          y_inc |-> IF y1 = y0 THEN 0 ELSE IF y1 > y0 THEN 1 ELSE -1,
          fx |-> IF x1 > x0 THEN (Floor(x0) + 1) * Res - x0 ELSE x0 - Floor(x0) * Res,
          fy |-> IF y1 > y0 THEN (Floor(y0) + 1) * Res - y0 ELSE y0 - Floor(y0) * Res,
          n |-> 1 + (IF x1 = x0 THEN 0
                     ELSE IF x1 > x0 THEN Floor(x1) - x ELSE x - Floor(x1))
                  + (IF y1 = y0 THEN 0
                     ELSE IF y1 > y0 THEN Floor(y1) - y ELSE y - Floor(y1)) ]

\* t_next_horizontal and t_next_vertical after kx and ky crossings.
TNextHorizontal(ray, kx) ==
    IF ray.dx = 0 THEN INF ELSE [num |-> ray.fx + kx * Res, den |-> ray.dx]
TNextVertical(ray, ky) ==
    IF ray.dy = 0 THEN INF ELSE [num |-> ray.fy + ky * Res, den |-> ray.dy]

\* The loop of ray_trace without the return of line 568.
RECURSIVE RayWalkNoStop(_, _, _, _)
RayWalkNoStop(ray, w, evaluate_cell, calls) ==
    IF w.n <= 0 THEN calls
    ELSE
      LET made == Append(calls, [x |-> w.x, y |-> w.y, n |-> w.n - 1])
      IN  IF TimeLess(TNextVertical(ray, w.ky), TNextHorizontal(ray, w.kx))
          THEN RayWalkNoStop(ray, [w EXCEPT !.y = @ + ray.y_inc, !.ky = @ + 1,
                                            !.n = @ - 1],
                             evaluate_cell, made)
          ELSE RayWalkNoStop(ray, [w EXCEPT !.x = @ + ray.x_inc, !.kx = @ + 1,
                                            !.n = @ - 1],
                             evaluate_cell, made)

\* The loop of ray_trace (lines 567-579): the calls evaluate_cell(x, y, n - 1)
\* made, in order; the walk returns after the first call for which the
\* visitor returns true.
\* evaluate_cell is given as the set of cells on which it returns true.
RECURSIVE RayWalk(_, _, _, _)
RayWalk(ray, w, evaluate_cell, calls) ==
    IF w.n <= 0 THEN calls
    ELSE
      LET made == Append(calls, [x |-> w.x, y |-> w.y, n |-> w.n - 1])
      IN  IF <<w.x, w.y>> \in evaluate_cell THEN made
          ELSE IF TimeLess(TNextVertical(ray, w.ky), TNextHorizontal(ray, w.kx))
          THEN RayWalk(ray, [w EXCEPT !.y = @ + ray.y_inc, !.ky = @ + 1, !.n = @ - 1],
                       evaluate_cell, made)
          ELSE RayWalk(ray, [w EXCEPT !.x = @ + ray.x_inc, !.kx = @ + 1, !.n = @ - 1],
                       evaluate_cell, made)

RayTrace(start_location, end_location, evaluate_cell) ==
    LET ray == RaySetup(start_location, end_location)
    IN  RayWalk(ray, [x |-> ray.x, y |-> ray.y, n |-> ray.n, kx |-> 0, ky |-> 0],
                evaluate_cell, <<>>)

\* ------------------------------------------------------------------------
\* dp_map_t.  map[<<x, y>>] is the inner table _this.map[x][y]: a function
\* from the ids that have an entry to the value stored (1 for true, 0 for
\* false, which is how lookup and update compare them).  The row
\* _this.map[x] exists iff some table of that row does.
\* ------------------------------------------------------------------------
EmptyTable == [i \in {} |-> 0]

Put(f, k, v) == [i \in DOMAIN f \cup {k} |-> IF i = k THEN v ELSE f[i]]
Drop(f, k) == [i \in DOMAIN f \ {k} |-> f[i]]

LookupById(m, x, y, id) ==
    IF <<x, y>> \in DOMAIN m /\ id \in DOMAIN m[<<x, y>>]
    THEN m[<<x, y>>][id]
    ELSE -1

\* The handles temp takes in the do-while loops of lookup and update:
\* dp_node, dp_node.parent, ... until the parent is null.
RECURSIVE Chain(_, _)
Chain(ns, h) ==
    IF ns[h].parent = NULL THEN <<h>> ELSE <<h>> \o Chain(ns, ns[h].parent)

\* lookup that reads the entry under the node's own id and never walks up
\* the parent chain.
LookupFromOwn(m, ns, x, y, temp) ==
    LookupById(m, x, y, ns[temp].id) = 1

RECURSIVE LookupFrom(_, _, _, _, _)
LookupFrom(m, ns, x, y, temp) ==
    LET val == LookupById(m, x, y, ns[temp].id)
    IN  IF val = 1 THEN TRUE
        ELSE IF val = 0 THEN FALSE
        ELSE IF ns[temp].parent # NULL THEN LookupFrom(m, ns, x, y, ns[temp].parent)
        ELSE FALSE

Lookup(m, ns, x, y, dp_node) == LookupFrom(m, ns, x, y, dp_node)

\* update_by_id that always starts the cell's table afresh.
UpdateByIdFresh(m, value, x, y, id) ==
    Put(m, <<x, y>>, Put(EmptyTable, id, value))

UpdateById(m, value, x, y, id) ==
    LET table == IF <<x, y>> \in DOMAIN m THEN m[<<x, y>>] ELSE EmptyTable
    IN  Put(m, <<x, y>>, Put(table, id, value))

\* update with a test of the node's own entry only, without the walk up the
\* parent chain.
TakenOwnOnly(m, ns, x, y, temp) == LookupById(m, x, y, ns[temp].id) # -1

RECURSIVE Taken(_, _, _, _, _)
Taken(m, ns, x, y, temp) ==
    IF LookupById(m, x, y, ns[temp].id) # -1 THEN TRUE
    ELSE IF ns[temp].parent # NULL THEN Taken(m, ns, x, y, ns[temp].parent)
    ELSE FALSE

\* update that stores the value before it reports that the cell was taken.
MapUpdateOverwrite(m, ns, value, x, y, dp_node) ==
    [ret |-> ~Taken(m, ns, x, y, dp_node),
     map |-> UpdateById(m, value, x, y, ns[dp_node].id)]

\* dp_map_t.update: [ret, map].
MapUpdate(m, ns, value, x, y, dp_node) ==
    IF Taken(m, ns, x, y, dp_node)
    THEN [ret |-> FALSE, map |-> m]
    ELSE [ret |-> TRUE, map |-> UpdateById(m, value, x, y, ns[dp_node].id)]

\* The heap the tree operations work on: the nodes, the modified_cells
\* arrays, the map, and ok = FALSE once a statement has thrown (TypeError
\* on reading a property of null or undefined) or cannot terminate.
Throw(s) == [s EXCEPT !.ok = FALSE]

\* erase that empties the table of the cell, whatever the id.
EraseTable(s, x, y, id) ==
    IF <<x, y>> \notin DOMAIN s.map THEN Throw(s)
    ELSE [s EXCEPT !.map[<<x, y>>] = EmptyTable]

\* dp_map_t.erase: delete _this.map[x][y][id].
Erase(s, x, y, id) ==
    IF <<x, y>> \notin DOMAIN s.map THEN Throw(s)
    ELSE [s EXCEPT !.map[<<x, y>>] = Drop(@, id)]

\* rename that drops the old entry without copying it.
RenameEraseOnly(s, x, y, old_id, new_id) == Erase(s, x, y, old_id)

\* dp_map_t.rename: copy the value (an absent one is undefined, which
\* lookup_by_id reads as no entry), then erase the old id.
Rename(s, x, y, old_id, new_id) ==
    IF <<x, y>> \notin DOMAIN s.map THEN Throw(s)
    ELSE LET table == s.map[<<x, y>>]
             copied == IF old_id \in DOMAIN table
                       THEN Put(table, new_id, table[old_id])
                       ELSE Drop(table, new_id)
         IN  Erase([s EXCEPT !.map[<<x, y>>] = copied], x, y, old_id)

\* ------------------------------------------------------------------------
\* dp_node_t
\* ------------------------------------------------------------------------
\* A constructor that gives a node with a parent the id of that parent.
NewNodeParentId(s, id, location, parent) ==
    LET node == [ id |-> IF parent # NULL THEN s.nodes[parent].id ELSE id,
                  location |-> location, parent |-> parent,
                  leaf |-> FALSE, children |-> 0, modified_cells |-> id ]
        ns == IF parent # NULL
              THEN [s.nodes EXCEPT ![parent].leaf = FALSE,
                                   ![parent].children = @ + 1]
              ELSE s.nodes
    IN  [s EXCEPT !.nodes = Put(ns, id, node),
                  !.arrays = Put(s.arrays, id, <<>>)]

\* new dp_node_t(id, location, parent): the node gets the handle `id`.
NewNode(s, id, location, parent) ==
    LET node == [ id |-> id, location |-> location, parent |-> parent,
                  leaf |-> FALSE, children |-> 0, modified_cells |-> id ]
        ns == IF parent # NULL
              THEN [s.nodes EXCEPT ![parent].leaf = FALSE,
                                   ![parent].children = @ + 1]
              ELSE s.nodes
    IN  [s EXCEPT !.nodes = Put(ns, id, node),
                  !.arrays = Put(s.arrays, id, <<>>)]

\* add_cell that pushes the cell twice.
AddCellTwice(s, h, x, y) ==
    [s EXCEPT !.arrays[s.nodes[h].modified_cells] = Append(Append(@, <<x, y>>), <<x, y>>)]

\* dp_node_t.add_cell
AddCell(s, h, x, y) ==
    [s EXCEPT !.arrays[s.nodes[h].modified_cells] = Append(@, <<x, y>>)]

\* The loop of lines 876-882, from index i on.
RECURSIVE EraseCells(_, _, _)
EraseCells(s, h, i) ==
    LET cells == s.arrays[s.nodes[h].modified_cells]
    IN  IF ~s.ok \/ i > Len(cells) THEN s
        ELSE EraseCells(Erase(s, cells[i][1], cells[i][2], s.nodes[h].id), h, i + 1)

\* The loop of lines 888-896 without the push of line 895.
RECURSIVE MergeCellsNoPush(_, _, _)
MergeCellsNoPush(s, h, i) ==
    LET node == s.nodes[h]
        parent == s.nodes[node.parent]
        cells == s.arrays[node.modified_cells]
    IN  IF ~s.ok \/ i > Len(cells) THEN s
        ELSE IF node.modified_cells = parent.modified_cells THEN Throw(s)
        ELSE LET renamed == Rename(s, cells[i][1], cells[i][2], node.id, parent.id)
             IN  IF ~renamed.ok THEN renamed
                 ELSE MergeCellsNoPush(renamed, h, i + 1)

\* The loop of lines 888-896, from index i on.  When the node and its parent
\* hold the same array object, every push lengthens the array the loop runs
\* over and the loop cannot end.
RECURSIVE MergeCells(_, _, _)
MergeCells(s, h, i) ==
    LET node == s.nodes[h]
        parent == s.nodes[node.parent]
        cells == s.arrays[node.modified_cells]
    IN  IF ~s.ok \/ i > Len(cells) THEN s
        ELSE IF node.modified_cells = parent.modified_cells THEN Throw(s)
        ELSE LET renamed == Rename(s, cells[i][1], cells[i][2], node.id, parent.id)
             IN  IF ~renamed.ok THEN renamed
                 ELSE MergeCells(
                        [renamed EXCEPT !.arrays[parent.modified_cells] =
                                            Append(@, cells[i])],
                        h, i + 1)

\* trim without the return of lines 868-871 at a child of the root.
RECURSIVE TrimNoRootStop(_, _)
TrimNoRootStop(s, h) ==
    IF ~s.ok THEN s
    ELSE IF s.nodes[h].parent = NULL THEN Throw(s)
    ELSE
      LET node == s.nodes[h]
          p == node.parent
          parent == s.nodes[p]
      IN  IF ~node.leaf /\ node.children = 0 THEN
            LET erased == EraseCells([s EXCEPT !.nodes[p].children = @ - 1], h, 1)
                trimmed == TrimNoRootStop(erased, p)
            IN  IF trimmed.ok THEN [trimmed EXCEPT !.nodes[h].parent = NULL]
                ELSE trimmed
          ELSE IF parent.children = 1 /\ parent.id # 0 THEN
            LET merged == MergeCells(s, h, 1)
            IN  IF ~merged.ok THEN merged
                ELSE TrimNoRootStop([merged EXCEPT
                                       !.nodes[h].modified_cells = parent.modified_cells,
                                       !.nodes[h].id = parent.id,
                                       !.nodes[h].parent = parent.parent],
                                    h)
          ELSE TrimNoRootStop(s, p)

\* trim whose merge leaves the node without a parent.
RECURSIVE TrimMergeDetached(_, _)
TrimMergeDetached(s, h) ==
    IF ~s.ok THEN s
    ELSE IF s.nodes[h].parent = NULL THEN s
    ELSE
      LET node == s.nodes[h]
          p == node.parent
          parent == s.nodes[p]
      IN  IF parent.id = 0 THEN s
          ELSE IF ~node.leaf /\ node.children = 0 THEN
            LET erased == EraseCells([s EXCEPT !.nodes[p].children = @ - 1], h, 1)
                trimmed == TrimMergeDetached(erased, p)
            IN  IF trimmed.ok THEN [trimmed EXCEPT !.nodes[h].parent = NULL]
                ELSE trimmed
          ELSE IF parent.children = 1 /\ parent.id # 0 THEN
            LET merged == MergeCells(s, h, 1)
            IN  IF ~merged.ok THEN merged
                ELSE [merged EXCEPT
                         !.nodes[h].modified_cells = parent.modified_cells,
                         !.nodes[h].id = parent.id,
                         !.nodes[h].parent = NULL]
          ELSE TrimMergeDetached(s, p)

\* dp_node_t.trim
RECURSIVE Trim(_, _)
Trim(s, h) ==
    IF ~s.ok THEN s
    ELSE IF s.nodes[h].parent = NULL THEN Throw(s)
    ELSE
      LET node == s.nodes[h]
          p == node.parent
          parent == s.nodes[p]
      IN  IF parent.id = 0 THEN s
          ELSE IF ~node.leaf /\ node.children = 0 THEN
            LET erased == EraseCells([s EXCEPT !.nodes[p].children = @ - 1], h, 1)
                trimmed == Trim(erased, p)
            IN  IF trimmed.ok THEN [trimmed EXCEPT !.nodes[h].parent = NULL]
                ELSE trimmed
          ELSE IF parent.children = 1 /\ parent.id # 0 THEN
            LET merged == MergeCells(s, h, 1)
            IN  IF ~merged.ok THEN merged
                ELSE Trim([merged EXCEPT
                             !.nodes[h].modified_cells = parent.modified_cells,
                             !.nodes[h].id = parent.id,
                             !.nodes[h].parent = parent.parent],
                          h)
          ELSE Trim(s, p)

\* ------------------------------------------------------------------------
\* beam_measurement_model_t
\* ------------------------------------------------------------------------
RangeSize == ScanSize \div Samples      \* range_size = size / samples
DeltaRot == 4 \div ScanSize             \* delta_rot = 2 pi / size, quarter turns

\* The beam indices of the loops of prob and update, in order.
RECURSIVE Beams(_)
Beams(i) == IF i < ScanSize THEN <<i>> \o Beams(i + RangeSize) ELSE <<>>

\* rot when the loop reaches beam i: delta_rot * start_index, plus
\* delta_rot * range_size per earlier iteration.
Rot(i) == DeltaRot * i

\* The center (x + 0.5, y + 0.5) of a cell.
CellCenter(x, y) == Location(x * Res + Res \div 2, y * Res + Res \div 2, 0)

\* end_location of prob_ray (lines 599-600): a copy of the robot's pose,
\* moved by add(max_ray, hit_location.angle).
ProbRayEnd(robot_location, hit_location) ==
    LocAdd(robot_location, MaxRay, hit_location.angle)

\* The calls of the visitor of prob_ray (lines 606-614); map_lookup is given
\* as the set of cells for which it returns true.
ProbRayCalls(robot_location, hit_location, map_lookup) ==
    RayTrace(robot_location, ProbRayEnd(robot_location, hit_location), map_lookup)

\* prob_ray, in thousandths.
ProbRay(robot_location, hit_location, map_lookup) ==
    LET calls == ProbRayCalls(robot_location, hit_location, map_lookup)
        last == calls[Len(calls)]
    IN  IF <<last.x, last.y>> \in map_lookup
        THEN ProbNormal(Distance2(robot_location, hit_location),
                        Distance2(robot_location, CellCenter(last.x, last.y)))
        ELSE 1000

\* prob: the product q as q / 1000^k, over the beams in `beams`.
RECURSIVE ProbFrom(_, _, _, _)
ProbFrom(robot_location, measurement, map_lookup, beams) ==
    IF beams = <<>> THEN [q |-> 1, k |-> 0]
    ELSE
      LET i == beams[1]
          rest == ProbFrom(robot_location, measurement, map_lookup, Tail(beams))
      IN  IF measurement[i + 1] # 0
          THEN LET hit_location == LocAdd(robot_location, measurement[i + 1], Rot(i))
                   p == ProbRay(robot_location, hit_location, map_lookup)
               IN  [q |-> Max(1, p) * rest.q, k |-> rest.k + 1]
          ELSE rest

Prob(robot_location, measurement, index, map_lookup) ==
    ProbFrom(robot_location, measurement, map_lookup, Beams(index))

\* A writer that calls add_cell whatever dp_map_t.update returned.
MapWriteAlways(s, value, x, y, dp_node) ==
    LET r == MapUpdate(s.map, s.nodes, value, x, y, dp_node)
    IN  AddCell([s EXCEPT !.map = r.map,
                          !.log = Append(@, [value |-> value, x |-> x, y |-> y,
                                             node |-> dp_node, ret |-> r.ret])],
                dp_node, x, y)

\* The writer dp_slam_t.update passes to the sensor model (lines 987-991);
\* every call is logged with what dp_map_t.update returned.
MapWrite(s, value, x, y, dp_node) ==
    LET r == MapUpdate(s.map, s.nodes, value, x, y, dp_node)
        logged == [s EXCEPT !.log = Append(@, [value |-> value, x |-> x, y |-> y,
                                               node |-> dp_node, ret |-> r.ret])]
    IN  IF r.ret THEN AddCell([logged EXCEPT !.map = r.map], dp_node, x, y)
        ELSE logged

\* The visitor of beam_measurement_model_t.update (lines 660-667), applied
\* to the calls ray_trace makes.
RECURSIVE VisitCells(_, _, _)
VisitCells(s, calls, dp_node) ==
    IF calls = <<>> THEN s
    ELSE
      LET c == calls[1]
          written == IF c.n > 1 THEN MapWrite(s, 0, c.x, c.y, dp_node)
                     ELSE IF c.n = 0 THEN MapWrite(s, 1, c.x, c.y, dp_node)
                     ELSE s
      IN  VisitCells(written, Tail(calls), dp_node)

\* update without the test measurement[i] != 0.0 of line 650.
RECURSIVE SensorUpdateFromAll(_, _, _, _)
SensorUpdateFromAll(s, measurement, dp_node, beams) ==
    IF beams = <<>> THEN s
    ELSE
      LET i == beams[1]
          robot_location == s.nodes[dp_node].location
          hit_location == LocAdd(robot_location, measurement[i + 1], Rot(i))
          calls == RayTrace(robot_location, hit_location, {})
      IN  SensorUpdateFromAll(VisitCells(s, calls, dp_node), measurement, dp_node,
                              Tail(beams))

\* beam_measurement_model_t.update for the particle dp_node.
RECURSIVE SensorUpdateFrom(_, _, _, _)
SensorUpdateFrom(s, measurement, dp_node, beams) ==
    IF beams = <<>> THEN s
    ELSE
      LET i == beams[1]
          robot_location == s.nodes[dp_node].location
          hit_location == LocAdd(robot_location, measurement[i + 1], Rot(i))
          calls == RayTrace(robot_location, hit_location, {})
          written == IF measurement[i + 1] # 0 THEN VisitCells(s, calls, dp_node)
                     ELSE s
      IN  SensorUpdateFrom(written, measurement, dp_node, Tail(beams))

SensorUpdate(s, measurement, index, dp_node) ==
    SensorUpdateFrom(s, measurement, dp_node, Beams(index))

\* increment without the modulo.
IncrementNoWrap(index) == index + 1

\* beam_measurement_model_t.increment
Increment(index) == (index + 1) % RangeSize

\* ------------------------------------------------------------------------
\* Exact arithmetic on the weights.  weights = [num, den]: weights[i] is
\* num[i + 1] / den, kept in lowest terms.  Squares of the numerators are
\* computed on sequences of base-10000 digits, least significant first.
\* ------------------------------------------------------------------------
Base == 10000

RECURSIVE Big(_)
Big(v) == IF v = 0 THEN <<>> ELSE <<v % Base>> \o Big(v \div Base)

RECURSIVE BigAddC(_, _, _)
BigAddC(a, b, c) ==
    IF a = <<>> /\ b = <<>> THEN Big(c)
    ELSE LET t == (IF a = <<>> THEN 0 ELSE a[1]) + (IF b = <<>> THEN 0 ELSE b[1]) + c
         IN  <<t % Base>> \o BigAddC(IF a = <<>> THEN a ELSE Tail(a),
                                      IF b = <<>> THEN b ELSE Tail(b), t \div Base)

BigAdd(a, b) == BigAddC(a, b, 0)

RECURSIVE BigMulDigit(_, _, _)
BigMulDigit(a, d, c) ==
    IF a = <<>> THEN Big(c)
    ELSE LET t == a[1] * d + c
         IN  <<t % Base>> \o BigMulDigit(Tail(a), d, t \div Base)

RECURSIVE BigMul(_, _)
BigMul(a, b) ==
    IF b = <<>> THEN <<>>
    ELSE BigAdd(BigMulDigit(a, b[1], 0), <<0>> \o BigMul(a, Tail(b)))

RECURSIVE BigStrip(_)
BigStrip(a) ==
    IF a # <<>> /\ a[Len(a)] = 0 THEN BigStrip(SubSeq(a, 1, Len(a) - 1)) ELSE a

RECURSIVE BigLessFrom(_, _, _)
BigLessFrom(a, b, i) ==
    IF i = 0 THEN FALSE
    ELSE IF a[i] # b[i] THEN a[i] < b[i]
    ELSE BigLessFrom(a, b, i - 1)

BigLess(a, b) ==
    LET sa == BigStrip(a)
        sb == BigStrip(b)
    IN  IF Len(sa) # Len(sb) THEN Len(sa) < Len(sb)
        ELSE BigLessFrom(sa, sb, Len(sa))

RECURSIVE SeqSum(_)
SeqSum(q) == IF q = <<>> THEN 0 ELSE q[1] + SeqSum(Tail(q))

RECURSIVE SeqGcd(_)
SeqGcd(q) == IF q = <<>> THEN 0 ELSE Gcd(q[1], SeqGcd(Tail(q)))

RECURSIVE BigSumSquares(_)
BigSumSquares(q) ==
    IF q = <<>> THEN <<>>
    ELSE BigAdd(BigMul(Big(q[1]), Big(q[1])), BigSumSquares(Tail(q)))

\* v divided by 10^e, rounded down.
RECURSIVE Shr10(_, _)
Shr10(v, e) == IF e = 0 THEN v ELSE Shr10(v \div 10, e - 1)

RECURSIVE Pow10(_)
Pow10(e) == IF e = 0 THEN 1 ELSE 10 * Pow10(e - 1)

\* ------------------------------------------------------------------------
\* particle_filter_t
\* ------------------------------------------------------------------------
\* n = 1 / size in every slot.
Uniform == [num |-> [i \in 1..Size |-> 1], den |-> Size]

\* weights[i] > threshold, threshold = elimination_factor * n.
AboveThreshold(weights, i) == weights.num[i] > weights.den \div (ElimDen * Size)

\* sum > 0.0000000001, where sum = g * total / (den * 1000^k).
SumAboveFloor(total, g, den, k) ==
    IF 3 * k <= 10 THEN total > Shr10(den \div g, 10 - 3 * k)
    ELSE total > 0 /\ den <= Shr10(total * g - 1, 3 * k - 10)

\* weight without the division by sum of lines 722-729.
WeightUnnormalized(weights, liks) ==
    [num |-> [i \in 1..Size |->
                IF AboveThreshold(weights, i) THEN weights.num[i] * liks[i].q ELSE 0],
     den |-> weights.den * Pow10(3 * liks[1].k)]

\* weight that divides by every sum but 0.
WeightNoFloor(weights, liks) ==
    LET prod == [i \in 1..Size |->
                   IF AboveThreshold(weights, i) THEN weights.num[i] * liks[i].q ELSE 0]
        total == SeqSum(prod)
        h == SeqGcd(prod)
    IN  IF total > 0
        THEN [num |-> [i \in 1..Size |-> prod[i] \div h], den |-> total \div h]
        ELSE Uniform

\* weight that multiplies every slot, whatever the threshold.
WeightNoThreshold(weights, liks) ==
    LET prod == [i \in 1..Size |-> weights.num[i] * liks[i].q]
        total == SeqSum(prod)
        h == SeqGcd(prod)
    IN  IF SumAboveFloor(total, 1, weights.den, liks[1].k)
        THEN [num |-> [i \in 1..Size |-> prod[i] \div h], den |-> total \div h]
        ELSE Uniform

\* particle_filter_t.weight: liks[i] = [q, k] is what weight_model returns
\* for slot i, the likelihood q / 1000^k.  The products num * q are taken
\* after removing the common factor g of the numerators that are multiplied.
Weight(weights, liks) ==
    LET kept == {i \in 1..Size : AboveThreshold(weights, i)}
        g == SeqGcd([i \in 1..Size |-> IF i \in kept THEN weights.num[i] ELSE 0])
        prod == [i \in 1..Size |->
                   IF i \in kept THEN (weights.num[i] \div g) * liks[i].q ELSE 0]
        total == SeqSum(prod)
        k == IF kept = {} THEN 0 ELSE liks[CHOOSE i \in kept : TRUE].k
        h == SeqGcd(prod)
    IN  IF kept # {} /\ SumAboveFloor(total, g, weights.den, k)
        THEN [num |-> [i \in 1..Size |-> prod[i] \div h], den |-> total \div h]
        ELSE Uniform

\* effective_sample_size() < resample_size, resample_size = size * frac:
\* 1 / sum(w^2) < size * frac.
EssBelow(weights) ==
    BigLess(BigMulDigit(BigMul(Big(weights.den), Big(weights.den)), FracDen, 0),
            BigMulDigit(BigSumSquares(weights.num), Size * FracNum, 0))

\* The loop of resample with u = r + (m + 1) * n.
RECURSIVE ResampleFromNext(_, _, _, _, _, _)
ResampleFromNext(particles, weights, rk, m, i, c) ==
    IF m >= Size THEN <<>>
    ELSE
      LET u == rk + (m + 1) * RDen
      IN  IF c.nan \/ ~(u * weights.den > c.v * RDen * Size)
          THEN <<IF i < Size THEN particles[i + 1] ELSE NULL>>
               \o ResampleFromNext(particles, weights, rk, m + 1, i, c)
          ELSE ResampleFromNext(particles, weights, rk, m, i + 1,
                                IF i + 1 < Size
                                THEN [nan |-> FALSE, v |-> c.v + weights.num[i + 2]]
                                ELSE [nan |-> TRUE, v |-> 0])

\* The loop of resample (lines 745-752) from m on, with r = rk * n / RDen:
\* i is the index reached (0-based), c the cumulative numerator, which is
\* NaN once weights[i] was read beyond the array.
RECURSIVE ResampleFrom(_, _, _, _, _, _)
ResampleFrom(particles, weights, rk, m, i, c) ==
    IF m >= Size THEN <<>>
    ELSE
      LET u == rk + m * RDen
      IN  IF c.nan \/ ~(u * weights.den > c.v * RDen * Size)
          THEN <<IF i < Size THEN particles[i + 1] ELSE NULL>>
               \o ResampleFrom(particles, weights, rk, m + 1, i, c)
          ELSE ResampleFrom(particles, weights, rk, m, i + 1,
                            IF i + 1 < Size
                            THEN [nan |-> FALSE, v |-> c.v + weights.num[i + 2]]
                            ELSE [nan |-> TRUE, v |-> 0])

\* particle_filter_t.resample: the new array (the weights are then reset).
Resample(particles, weights, rk) ==
    ResampleFrom(particles, weights, rk, 0, 0, [nan |-> FALSE, v |-> weights.num[1]])

\* particle_filter_t.sample with r = rk / RDen: the index i (0-based) the loop
\* stops at.  Past the last weight c is NaN and r > c is false.
RECURSIVE FilterSampleFrom(_, _, _, _)
FilterSampleFrom(weights, rk, i, c) ==
    IF i < Size /\ rk * weights.den > c * RDen
    THEN FilterSampleFrom(weights, rk, i + 1,
                          IF i + 1 < Size THEN c + weights.num[i + 2] ELSE 0)
    ELSE i

\* particle_filter_t.sample: particles[i], undefined past the end.
FilterSample(particles, weights, rk) ==
    LET i == FilterSampleFrom(weights, rk, 0, weights.num[1])
    IN  IF i < Size THEN particles[i + 1] ELSE NULL

\* The cells x_min <= x < x_max, y_min <= y < y_max.
RegionCells(region) ==
    (region.x_min..(region.x_max - 1)) \X (region.y_min..(region.y_max - 1))

\* get_map with loops that run up to x_max and y_max inclusive.
GetMapInclusive(m, ns, region, dp_node) ==
    [c \in (region.x_min..region.x_max) \X (region.y_min..region.y_max) |->
        Lookup(m, ns, c[1], c[2], dp_node)]

\* dp_map_t.get_map: the grid, as a function of the cell.
GetMap(m, ns, region, dp_node) ==
    [c \in RegionCells(region) |-> Lookup(m, ns, c[1], c[2], dp_node)]

\* ------------------------------------------------------------------------
\* dp_slam_t
\* ------------------------------------------------------------------------
VARIABLES
    nodes,          \* heap of dp_node_t objects: handle -> fields
    arrays,         \* heap of modified_cells arrays: handle -> cells
    map,            \* dp_map_t.map
    ok,             \* FALSE once a statement has thrown
    log,            \* the calls of the map writer in the current update
    particles,      \* _this.particles (handles)
    new_particles,  \* the local new_particles of update
    resampled,      \* which branch of line 958 the current update took
    weights,        \* particle_filter_t.weights
    next_id,        \* _this.next_id
    start_index,    \* beam_measurement_model_t.start_index
    measurement,    \* the scan of the current update
    pc,             \* position in update: "idle", "trim" or "map"
    i,              \* the index of the trim loop (1-based)
    updates,        \* number of update calls made
    before,         \* what the current update started from, and its control
    sampled         \* what the last dp_slam_t.sample since the last update returned

vars == << nodes, arrays, map, ok, log, particles, new_particles, resampled,
           weights, next_id, start_index, measurement, pc, i, updates, before,
           sampled >>

\* The value of sampled when sample has not returned: before the first call,
\* and when reading .location of undefined throws.
NoSample == [location |-> NULL]

Heap == [nodes |-> nodes, arrays |-> arrays, map |-> map, ok |-> ok, log |-> log]

\* Inputs: odometry controls, the deviations sample_normal draws, scans,
\* the regions sample is asked for.
Origin == Location(0, 0, 0)
Controls == { Control(Origin, Origin), Control(Location(Res, 0, 0), Origin) }
NoDev == [r1 |-> 0, trans |-> 0, r2 |-> 0]
Devs == { NoDev, [r1 |-> 0, trans |-> -Res, r2 |-> 0] }
Scans == { <<3, 5, 0, 0>>, <<5, 0, 0, 0>> }
NoReturn == <<0, 0, 0, 0>>

\* The (control, scan) pairs update is called with.
Regions == { [x_min |-> -1, x_max |-> 3, y_min |-> -1, y_max |-> 3],
             [x_min |-> 1, x_max |-> 2, y_min |-> 0, y_max |-> 2] }
Inputs == (Controls \X Scans) \cup {<<Control(Origin, Origin), NoReturn>>}

\* The state an update starts from; weighted: the weights after line 955.
Snapshot(control) ==
    [control |-> control, nodes |-> nodes, map |-> map, particles |-> particles,
     weights |-> weights, weighted |-> weights]

\* The constructor (lines 916-948).
RECURSIVE InitialParticles(_, _)
InitialParticles(s, id) ==
    IF id > Size THEN s
    ELSE InitialParticles(NewNode(s, id, s.nodes[0].location, 0), id + 1)

Constructed ==
    InitialParticles(
        NewNode([nodes |-> EmptyTable, arrays |-> EmptyTable, map |-> EmptyTable,
                 ok |-> TRUE, log |-> <<>>], 0, Origin, NULL),
        1)

Init ==
    /\ nodes = Constructed.nodes
    /\ arrays = Constructed.arrays
    /\ map = Constructed.map
    /\ ok = TRUE
    /\ log = <<>>
    /\ particles = [k \in 1..Size |-> k]
    /\ new_particles = <<>>
    /\ resampled = FALSE
    /\ weights = Uniform
    /\ next_id = Size + 1
    /\ start_index = 0
    /\ measurement = <<>>
    /\ pc = "idle"
    /\ i = 1
    /\ updates = 0
    /\ before = Snapshot(Control(Origin, Origin))
    /\ sampled = NoSample

\* predict that attaches every new node to the particle of the first slot.
RECURSIVE PredictFirstParent(_, _, _, _, _)
PredictFirstParent(s, control, devs, id, k) ==
    IF k > Size \/ ~s.ok THEN s
    ELSE IF particles[k] = NULL THEN Throw(s)
    ELSE PredictFirstParent(
            NewNode(s, id,
                    MotionSample(control, s.nodes[particles[k]].location, devs[k]),
                    particles[1]),
            control, devs, id + 1, k + 1)

\* particle_filter_t.predict with the prediction model of lines 934-937,
\* from slot k on: the heap with the new nodes, created in slot order.
RECURSIVE Predict(_, _, _, _, _)
Predict(s, control, devs, id, k) ==
    IF k > Size \/ ~s.ok THEN s
    ELSE IF particles[k] = NULL THEN Throw(s)
    ELSE Predict(NewNode(s, id,
                         MotionSample(control, s.nodes[particles[k]].location, devs[k]),
                         particles[k]),
                 control, devs, id + 1, k + 1)

\* The weight model of lines 938-946 for the node dp_node.
WeightModel(s, dp_node, scan) ==
    Prob(s.nodes[dp_node].location, scan, start_index,
         {c \in DOMAIN s.map : Lookup(s.map, s.nodes, c[1], c[2], dp_node)})

\* An update that marks no resampled node.
MarkLeavesNone(ns, ps) == ns

\* new_particles[k].leaf = true for every slot (lines 962-964).
MarkLeaves(ns, ps) ==
    [h \in DOMAIN ns |->
        IF \E k \in 1..Len(ps) : ps[k] = h THEN [ns[h] EXCEPT !.leaf = TRUE] ELSE ns[h]]

\* dp_slam_t.update, lines 951-964: predict, weight, and, when the effective
\* sample size is below resample_size, resample and mark the new particles.
UpdateStart(control, devs, scan, rk) ==
    /\ pc = "idle" /\ ok
    /\ LET predicted == Predict(Heap, control, devs, next_id, 1)
           created == [k \in 1..Size |-> next_id + k - 1]
           weighted == Weight(weights,
                         [k \in 1..Size |-> WeightModel(predicted, created[k], scan)])
           resample == EssBelow(weighted)
           drawn == Resample(created, weighted, rk)
       IN  /\ predicted.ok
           /\ resample \/ rk = 0
           /\ nodes' = IF resample THEN MarkLeaves(predicted.nodes, drawn)
                       ELSE predicted.nodes
           /\ arrays' = predicted.arrays
           /\ particles' = created
           /\ new_particles' = IF resample THEN drawn ELSE created
           /\ resampled' = resample
           /\ weights' = IF resample THEN Uniform ELSE weighted
           /\ next_id' = next_id + Size
           /\ before' = [Snapshot(control) EXCEPT !.weighted = weighted]
    /\ sampled' = NoSample
    /\ measurement' = scan
    /\ log' = <<>>
    /\ pc' = "trim"
    /\ i' = 1
    /\ UNCHANGED << map, ok, start_index, updates >>

\* The update calls explored from the constructor on.
UpdateBegin(control, devs, scan, rk) ==
    /\ updates < MaxUpdates
    /\ UpdateStart(control, devs, scan, rk)

\* One iteration of the trim loop (lines 967-969, or 975-978 where the
\* particle is first marked a leaf); after the last one of the resampling
\* branch, _this.particles = new_particles (line 971).
UpdateTrim ==
    /\ pc = "trim" /\ ok
    /\ LET marked == IF resampled THEN Heap
                     ELSE [Heap EXCEPT !.nodes[particles[i]].leaf = TRUE]
           trimmed == Trim(marked, particles[i])
       IN  /\ nodes' = trimmed.nodes
           /\ arrays' = trimmed.arrays
           /\ map' = trimmed.map
           /\ ok' = trimmed.ok
    /\ IF i < Size
       THEN /\ i' = i + 1
            /\ UNCHANGED << pc, particles >>
       ELSE /\ i' = 1
            /\ pc' = "map"
            /\ particles' = new_particles
    /\ UNCHANGED << log, new_particles, resampled, weights, next_id, start_index,
                    measurement, updates, before, sampled >>

\* A map update loop over the nodes predict created, as if it ran before
\* line 971.
RECURSIVE UpdateMapsPredicted(_, _)
UpdateMapsPredicted(s, k) ==
    IF k > Size THEN s
    ELSE UpdateMapsPredicted(
            SensorUpdate(s, measurement, start_index, next_id - Size + k - 1), k + 1)

\* The map update loop of lines 982-993 from slot k on.
RECURSIVE UpdateMaps(_, _)
UpdateMaps(s, k) ==
    IF k > Size THEN s
    ELSE UpdateMaps(SensorUpdate(s, measurement, start_index, particles[k]), k + 1)

\* dp_slam_t.update, lines 982-995: the sensor writes and increment().
UpdateMap ==
    /\ pc = "map" /\ ok
    /\ LET written == UpdateMaps(Heap, 1)
       IN  /\ nodes' = written.nodes
           /\ arrays' = written.arrays
           /\ map' = written.map
           /\ ok' = written.ok
           /\ log' = written.log
    /\ start_index' = Increment(start_index)
    /\ pc' = "idle"
    /\ updates' = updates + 1
    /\ UNCHANGED << particles, new_particles, resampled, weights, next_id,
                    measurement, i, before, sampled >>

\* sample that resets the weights to n as resample does.
SampleCallReset(s, ws, ps, region, rk) ==
    LET dp_node == FilterSample(ps, ws, rk)
    IN  IF dp_node = NULL
        THEN [heap |-> Throw(s), weights |-> Uniform, ret |-> NoSample]
        ELSE [heap |-> s, weights |-> Uniform,
              ret |-> [location |-> s.nodes[dp_node].location,
                       map |-> GetMap(s.map, s.nodes, region, dp_node),
                       region |-> region]]

\* dp_slam_t.sample (lines 998-1008) on the heap s, the weights ws and the
\* particle array ps, with Math.random() = rk / RDen: the heap and the
\* weights it leaves, and what it returns.  Reading the location of an
\* undefined particle throws.
SampleCall(s, ws, ps, region, rk) ==
    LET dp_node == FilterSample(ps, ws, rk)
    IN  IF dp_node = NULL
        THEN [heap |-> Throw(s), weights |-> ws, ret |-> NoSample]
        ELSE [heap |-> s, weights |-> ws,
              ret |-> [location |-> s.nodes[dp_node].location,
                       map |-> GetMap(s.map, s.nodes, region, dp_node),
                       region |-> region]]

\* dp_slam_t.sample, called between updates.
Sample(region, rk) ==
    /\ pc = "idle" /\ ok
    /\ LET r == SampleCall(Heap, weights, particles, region, rk)
       IN  /\ nodes' = r.heap.nodes
           /\ arrays' = r.heap.arrays
           /\ map' = r.heap.map
           /\ ok' = r.heap.ok
           /\ log' = r.heap.log
           /\ weights' = r.weights
           /\ sampled' = r.ret
    /\ UNCHANGED << particles, new_particles, resampled, next_id, start_index,
                    measurement, pc, i, updates, before >>

Next ==
    \/ \E in \in Inputs, rk \in 0..(RDen - 1) :
         \E devs \in [1..Size -> IF Still(in[1]) THEN {NoDev} ELSE Devs] :
            UpdateBegin(in[1], devs, in[2], rk)
    \/ UpdateTrim
    \/ UpdateMap

Spec == Init /\ [][Next]_vars

\* The updates, with calls of sample between them.
SampleNext ==
    \/ Next
    \/ \E region \in Regions, rk \in 0..(RDen - 1) : Sample(region, rk)

SampleSpec == Init /\ [][SampleNext]_vars

\* Longer runs of update on fewer inputs: one scan, a still or a forward
\* control, and motion samples that hold back the first particle or none.
DeepInputs == Controls \X {<<3, 5, 0, 0>>}

DeepDevs(control) ==
    IF Still(control) THEN {[k \in 1..Size |-> NoDev]}
    ELSE {[k \in 1..Size |-> NoDev],
          [k \in 1..Size |-> IF k = 1 THEN [r1 |-> 0, trans |-> -Res, r2 |-> 0] ELSE NoDev]}

DeepBegin(control, devs, scan, rk) ==
    /\ updates < MaxDeep
    /\ UpdateStart(control, devs, scan, rk)

DeepNext ==
    \/ \E in \in DeepInputs, rk \in 0..(RDen - 1) :
         \E devs \in DeepDevs(in[1]) : DeepBegin(in[1], devs, in[2], rk)
    \/ UpdateTrim
    \/ UpdateMap

DeepSpec == Init /\ [][DeepNext]_vars

\* ------------------------------------------------------------------------
\* dp_node_t.trim on a chain root -> A -> ... -> C of single children.  The
\* chain is built with the constructor, every cell of ChainCells is written
\* through the map writer by one node of the chain or by none, and C is the
\* leaf held by every particle slot.
\* ------------------------------------------------------------------------
ChainCells == << <<0, 0>>, <<1, 0>>, <<0, 1>> >>

RECURSIVE ChainNodes(_, _, _)
ChainNodes(s, id, len) ==
    IF id > len THEN s
    ELSE ChainNodes(NewNode(s, id, Origin, id - 1), id + 1, len)

\* writes[j] = [node, value] for ChainCells[j]; node 0 writes nothing.
RECURSIVE ChainWrites(_, _, _)
ChainWrites(s, writes, j) ==
    IF j > Len(ChainCells) THEN s
    ELSE ChainWrites(
            IF writes[j].node = 0 THEN s
            ELSE MapWrite(s, writes[j].value, ChainCells[j][1], ChainCells[j][2],
                          writes[j].node),
            writes, j + 1)

ChainHeap(len, writes) ==
    LET built == ChainNodes(NewNode([nodes |-> EmptyTable, arrays |-> EmptyTable,
                                     map |-> EmptyTable, ok |-> TRUE, log |-> <<>>],
                                    0, Origin, NULL),
                            1, len)
    IN  ChainWrites([built EXCEPT !.nodes[len].leaf = TRUE], writes, 1)

ChainInit ==
    \E len \in 2..MaxChain :
      \E writes \in [1..Len(ChainCells) ->
                        {[node |-> 0, value |-> 0]} \cup
                        [node : 1..len, value : {0, 1}]] :
        LET s == ChainHeap(len, writes)
        IN  /\ nodes = s.nodes
            /\ arrays = s.arrays
            /\ map = s.map
            /\ ok = s.ok
            /\ log = s.log
            /\ particles = [k \in 1..Size |-> len]
            /\ new_particles = [k \in 1..Size |-> len]
            /\ resampled = TRUE
            /\ weights = Uniform
            /\ next_id = len + 1
            /\ start_index = 0
            /\ measurement = <<>>
            /\ pc = "chain"
            /\ i = 1
            /\ updates = 0
            /\ before = [control |-> Control(Origin, Origin), nodes |-> s.nodes,
                         map |-> s.map, particles |-> [k \in 1..Size |-> len],
                         weights |-> Uniform, weighted |-> Uniform]
            /\ sampled = NoSample

\* C.trim()
TrimChain ==
    /\ pc = "chain"
    /\ LET trimmed == Trim(Heap, particles[1])
       IN  /\ nodes' = trimmed.nodes
           /\ arrays' = trimmed.arrays
           /\ map' = trimmed.map
           /\ ok' = trimmed.ok
    /\ pc' = "trimmed"
    /\ UNCHANGED << log, particles, new_particles, resampled, weights, next_id,
                    start_index, measurement, i, updates, before, sampled >>

ChainNext == TrimChain

ChainSpec == ChainInit /\ [][ChainNext]_vars

\* ------------------------------------------------------------------------
\* ray_trace on its own: from and to are drawn from the points with
\* coordinates of half cells, the visitor never returns true, and log
\* receives its calls.
\* ------------------------------------------------------------------------
Points == {Location(x, y, 0) : x \in -1..(MaxCoord - 1), y \in -1..(MaxCoord - 1)}

RayInit ==
    /\ nodes = Constructed.nodes
    /\ arrays = Constructed.arrays
    /\ map = Constructed.map
    /\ ok = TRUE
    /\ log = <<>>
    /\ particles = [k \in 1..Size |-> k]
    /\ new_particles = <<>>
    /\ resampled = FALSE
    /\ weights = Uniform
    /\ next_id = Size + 1
    /\ start_index = 0
    /\ measurement = <<>>
    /\ pc = "ray"
    /\ i = 1
    /\ updates = 0
    /\ before \in [from : Points, to : Points]
    /\ sampled = NoSample

\* ray_trace(from, to, visit)
RayCall ==
    /\ pc = "ray"
    /\ log' = RayTrace(before.from, before.to, {})
    /\ pc' = "traced"
    /\ UNCHANGED << nodes, arrays, map, ok, particles, new_particles, resampled,
                    weights, next_id, start_index, measurement, i, updates, before,
                    sampled >>

RayNext == RayCall

RaySpec == RayInit /\ [][RayNext]_vars

\* ------------------------------------------------------------------------
\* odometry_motion_model_t.sample on its own: the coefficients, the control,
\* the pose object passed in and the deviations drawn are chosen freely.
\* ------------------------------------------------------------------------
Coefficients == { <<A1, A2, A3, A4>>, <<0, 0, 0, 0>>, <<1, 1, 1, 1>>, <<0, 1, 0, 1>> }

Poses == {Location(x, y, angle) : x \in {0, 3}, y \in {0, -2}, angle \in 0..3}

MotionControls ==
    { Control(Origin, Origin),
      Control(Location(Res, Res, 1), Location(Res, Res, 1)),
      Control(Location(Res, 0, 0), Origin),
      Control(Location(0, Res, 1), Origin),
      Control(Location(0, 0, 1), Origin),
      Control(Origin, Location(Res, 0, 2)) }

MotionDevs == { NoDev, [r1 |-> 1, trans |-> Res, r2 |-> -1] }

MotionInit ==
    /\ nodes = Constructed.nodes
    /\ arrays = Constructed.arrays
    /\ map = Constructed.map
    /\ ok = TRUE
    /\ log = <<>>
    /\ particles = [k \in 1..Size |-> k]
    /\ new_particles = <<>>
    /\ resampled = FALSE
    /\ weights = Uniform
    /\ next_id = Size + 1
    /\ start_index = 0
    /\ measurement = <<>>
    /\ pc = "motion"
    /\ i = 1
    /\ updates = 0
    /\ before \in [a : Coefficients, control : MotionControls, locs : {<<p>> : p \in Poses},
                   dev : MotionDevs]
    /\ sampled = NoSample

\* sample(control, location) with location the object of handle 1.
MotionCall ==
    /\ pc = "motion"
    /\ sampled' = OdometrySample(before.a, before.locs, before.control, 1, before.dev)
    /\ pc' = "moved"
    /\ UNCHANGED << nodes, arrays, map, ok, log, particles, new_particles, resampled,
                    weights, next_id, start_index, measurement, i, updates, before >>

MotionNext == MotionCall

MotionSpec == MotionInit /\ [][MotionNext]_vars

\* ------------------------------------------------------------------------
\* particle_filter_t on its own: weight is called with the likelihoods
\* q / 1000^k of a weight model that may return any of LikQ for a slot, and
\* resample with r = rk * n / RDen, in any order.
\* ------------------------------------------------------------------------
LikQ == {0, 1, 100}
LikK == {1, 3, 4}
Liks == UNION {[1..Size -> [q : LikQ, k : {k}]] : k \in LikK}

FilterInit ==
    /\ nodes = Constructed.nodes
    /\ arrays = Constructed.arrays
    /\ map = Constructed.map
    /\ ok = TRUE
    /\ log = <<>>
    /\ particles = [k \in 1..Size |-> k]
    /\ new_particles = <<>>
    /\ resampled = FALSE
    /\ weights = Uniform
    /\ next_id = Size + 1
    /\ start_index = 0
    /\ measurement = <<>>
    /\ pc = "filter"
    /\ i = 1
    /\ updates = 0
    /\ before = [weights |-> Uniform]
    /\ sampled = NoSample

\* particle_filter_t.weight(particles, measurement)
FilterWeight(liks) ==
    /\ pc \in {"filter", "weighted", "drawn"} /\ updates < MaxCalls
    /\ weights' = Weight(weights, liks)
    /\ before' = [weights |-> weights, liks |-> liks]
    /\ pc' = "weighted"
    /\ updates' = updates + 1
    /\ UNCHANGED << nodes, arrays, map, ok, log, particles, new_particles, resampled,
                    next_id, start_index, measurement, i, sampled >>

\* particle_filter_t.resample(particles)
FilterResample(rk) ==
    /\ pc \in {"filter", "weighted", "drawn"} /\ updates < MaxCalls
    /\ new_particles' = Resample(particles, weights, rk)
    /\ weights' = Uniform
    /\ before' = [weights |-> weights, rk |-> rk]
    /\ pc' = "drawn"
    /\ updates' = updates + 1
    /\ UNCHANGED << nodes, arrays, map, ok, log, particles, resampled, next_id,
                    start_index, measurement, i, sampled >>

FilterNext ==
    \/ \E liks \in Liks : FilterWeight(liks)
    \/ \E rk \in 0..(RDen - 1) : FilterResample(rk)

FilterSpec == FilterInit /\ [][FilterNext]_vars

\* ------------------------------------------------------------------------
\* beam_measurement_model_t on its own: one beam of a scan is scored by
\* prob_ray and traced by update, from a pose with any heading of a quarter
\* turn, against a map_lookup that answers true on the cells of occ.
\* ------------------------------------------------------------------------
BeamPoses == {Location(x, 1, angle) : x \in {1, 2}, angle \in 0..3}
BeamRanges == {3, 5}
OccCells == { <<0, 0>>, <<1, 0>>, <<2, 0>>, <<0, 1>>, <<0, 2>>, <<-1, 0>> }

BeamInit ==
    /\ nodes = Constructed.nodes
    /\ arrays = Constructed.arrays
    /\ map = Constructed.map
    /\ ok = TRUE
    /\ log = <<>>
    /\ particles = [k \in 1..Size |-> k]
    /\ new_particles = <<>>
    /\ resampled = FALSE
    /\ weights = Uniform
    /\ next_id = Size + 1
    /\ start_index = 0
    /\ measurement = <<>>
    /\ pc = "beam"
    /\ i = 1
    /\ updates = 0
    /\ before \in [pose : BeamPoses, range : BeamRanges, beam : 0..(ScanSize - 1),
                   occ : SUBSET OccCells]
    /\ sampled = NoSample

\* The body of the loops of prob (lines 636-638) and update (lines 651-669)
\* for beam before.beam with measurement[i] = before.range: log receives the
\* calls of prob_ray's visitor, sampled what prob_ray returns, the end of
\* its ray and the calls of update's visitor.
BeamCall ==
    /\ pc = "beam"
    /\ LET robot_location == before.pose
           hit_location == LocAdd(robot_location, before.range, Rot(before.beam))
       IN  /\ log' = ProbRayCalls(robot_location, hit_location, before.occ)
           /\ sampled' = [location |-> NULL,
                          hit |-> hit_location,
                          end |-> ProbRayEnd(robot_location, hit_location),
                          p |-> ProbRay(robot_location, hit_location, before.occ),
                          written |-> RayTrace(robot_location, hit_location, {})]
    /\ pc' = "scored"
    /\ UNCHANGED << nodes, arrays, map, ok, particles, new_particles, resampled,
                    weights, next_id, start_index, measurement, i, updates, before >>

BeamNext == BeamCall

BeamSpec == BeamInit /\ [][BeamNext]_vars

\* ------------------------------------------------------------------------
\* Vocabulary of the properties
\* ------------------------------------------------------------------------
Idle == pc = "idle"

Handles == DOMAIN nodes

\* The nodes on the parent chain of h, h included, up to the root.
ChainSet(h) == LET chain == Chain(nodes, h) IN {chain[j] : j \in 1..Len(chain)}

\* The nodes that are, or have a descendant among, the current particles.
Live == UNION {ChainSet(particles[k]) : k \in {j \in 1..Size : particles[j] # NULL}}

Cells == DOMAIN map

\* The map holds an entry at cell c under the current id of node h.
HasEntry(h, c) == c \in Cells /\ nodes[h].id \in DOMAIN map[c]

ModifiedCells(h) == arrays[nodes[h].modified_cells]

ModifiedSet(h) == {ModifiedCells(h)[j] : j \in 1..Len(ModifiedCells(h))}

\* C1: after any sequence of update calls, for every cell and every current
\* particle, at most one node on the particle's parent chain has a defined
\* map entry at the cell.
C1_OneWriterPerChain ==
    Idle => \A k \in 1..Size : \A c \in Cells :
                Cardinality({h \in ChainSet(particles[k]) : HasEntry(h, c)}) <= 1

\* Reached: a particle whose ancestor holds the entry of a cell that the
\* particle itself tried to write in the last update.
C1_Witness ==
    /\ Idle
    /\ \E k \in 1..Size : \E e \in {log[j] : j \in 1..Len(log)} :
          /\ e.node = particles[k] /\ ~e.ret
          /\ \E h \in ChainSet(particles[k]) \ {particles[k]} : HasEntry(h, <<e.x, e.y>>)

\* C2: after any number of update calls, every cell in the modified_cells of
\* a node on the parent chain of a current particle has a defined entry
\* under that node's id.
C2_ModifiedCellsDefined ==
    Idle => \A h \in Live : \A c \in ModifiedSet(h) :
                LookupById(map, c[1], c[2], nodes[h].id) # -1

\* Reached: a live node that took over its parent's id in a merge and lists
\* cells of both.
C2_Witness ==
    /\ Idle
    /\ \E h \in Live :
          /\ nodes[h].id # h
          /\ nodes[h].modified_cells # h
          /\ Len(ModifiedCells(h)) >= 2

LogSet == {log[j] : j \in 1..Len(log)}

\* A cell that never has a table, besides those that have one.
ProbeCells == Cells \cup {<<-9, -9>>}

Ids == 0..(next_id - 1)

\* C3: dp_map_t.update is first-writer-wins along the ancestry: when the
\* node or one of its ancestors has an entry at the cell it returns false and
\* leaves the map as it is; otherwise it stores the value under the node's
\* id, changes no other entry and returns true.  Every call the sensor
\* writer made in the last update returned accordingly.
C3_FirstWriterWins ==
    /\ \A h \in Handles : \A c \in ProbeCells : \A v \in {0, 1} :
          LET r == MapUpdate(map, nodes, v, c[1], c[2], h)
          IN  IF \E a \in ChainSet(h) : HasEntry(a, c)
              THEN /\ ~r.ret
                   /\ r.map = map
                   /\ Lookup(r.map, nodes, c[1], c[2], h) = Lookup(map, nodes, c[1], c[2], h)
              ELSE /\ r.ret
                   /\ LookupById(r.map, c[1], c[2], nodes[h].id) = v
                   /\ DOMAIN r.map = Cells \cup {c}
                   /\ \A d \in DOMAIN r.map : \A id \in Ids :
                         (d # c \/ id # nodes[h].id) =>
                            LookupById(r.map, d[1], d[2], id) = LookupById(map, d[1], d[2], id)
    /\ Idle => \A e \in LogSet :
          IF e.ret
          THEN LookupById(map, e.x, e.y, nodes[e.node].id) = e.value
          ELSE \E a \in ChainSet(e.node) : HasEntry(a, <<e.x, e.y>>)

\* Reached: the writer offered "free" for a cell that an ancestor of the
\* particle had recorded occupied; the call returned false and the particle
\* still reads the cell occupied.
C3_Witness ==
    /\ Idle
    /\ \E e \in LogSet :
          /\ ~e.ret /\ e.value = 0
          /\ Lookup(map, nodes, e.x, e.y, e.node)
          /\ ~HasEntry(e.node, <<e.x, e.y>>)

\* C4: after every update, every entry of the map is keyed by the id of a
\* node on the parent chain of some current particle.
C4_NoDeadEntries ==
    Idle => \A c \in Cells : \A id \in DOMAIN map[c] : \E h \in Live : nodes[h].id = id

\* C5: after every update, no non-root node that was never detached has
\* children = 0 and leaf = false.
C5_NoDeadBranch ==
    (Idle /\ updates >= 1) =>
        \A h \in Handles \ {0} :
            nodes[h].parent # NULL => ~(nodes[h].children = 0 /\ ~nodes[h].leaf)

ParticleSet == {particles[k] : k \in 1..Size}

LiveChildren(h) == {g \in Live : nodes[g].parent = h}

\* C6: after the trim pass of every update, every non-root interior node on
\* the parent chain of a current particle has at least two children with
\* surviving descendants.
C6_SteinerTree ==
    (pc = "map") =>
        \A h \in Live \ ({0} \cup ParticleSet) : Cardinality(LiveChildren(h)) >= 2

\* C7: on a chain root -> A -> ... -> C in which every interior node below
\* the root has exactly one child and C is the only leaf, C.trim() completes
\* and leaves C with the id A had, with the root as its parent and with the
\* cells of all the chain's nodes as its modified_cells, each once; what C
\* reads at any cell is what it read before.
C7_ChainCollapse ==
    [][ pc = "chain" =>
          LET c == particles[1]
              below == ChainSet(c) \ {0}
              cells == UNION {ModifiedSet(h) : h \in below}
              after == arrays'[nodes'[c].modified_cells]
          IN  /\ ok'
              /\ nodes'[c].id = nodes[1].id
              /\ nodes'[c].parent = 0
              /\ {after[j] : j \in 1..Len(after)} = cells
              /\ Len(after) = Cardinality(cells)
              /\ \A d \in ProbeCells :
                    Lookup(map', nodes', d[1], d[2], c) = Lookup(map, nodes, d[1], d[2], c)
      ]_vars

\* Reached: a chain of three nodes below the root collapsed into C, which
\* now lists cells that two other nodes had written.
C7_Witness ==
    /\ pc = "trimmed"
    /\ LET c == particles[1]
       IN  /\ c >= 3
           /\ nodes[c].id = 1
           /\ nodes[c].parent = 0
           /\ Len(ModifiedCells(c)) = 3
           /\ \E e1, e2 \in LogSet : e1.node # c /\ e2.node # c /\ e1.node # e2.node
           /\ \E d \in Cells : Lookup(map, nodes, d[1], d[2], c)

\* The states in which update may call trim: between updates, and in the
\* trim pass once every new particle is marked a leaf (lines 962-964).
TrimCallable == pc # "trim" \/ resampled

\* A dead branch: a node still attached to the tree that is no leaf and has
\* no children.
DeadBranch(h) == nodes[h].parent # NULL /\ ~nodes[h].leaf /\ nodes[h].children = 0

\* C8: for any node attached to a reachable tree (a leaf, an interior node
\* or a dead branch), two calls of trim in succession complete and leave the
\* tree and the map as one call does.
C8_TrimIdempotent ==
    TrimCallable =>
        \A h \in Handles \ {0} :
            nodes[h].parent # NULL =>
                LET once == Trim(Heap, h)
                    twice == Trim(once, h)
                IN  once.ok /\ twice.ok /\ twice = once

\* C9: between update steps, from construction on, a node has leaf = true
\* iff it is one of the current particles.
C9_LeafIffParticle ==
    Idle => \A h \in Handles : nodes[h].leaf <=> h \in ParticleSet

\* C10: between update steps, for every node of the ancestry tree, root
\* included, children equals the number of live nodes whose parent it is.
C10_ChildrenCount ==
    Idle => \A h \in Live : nodes[h].children = Cardinality(LiveChildren(h))

\* C11: after any sequence of weight and resample calls, every weight is
\* non-negative and the weights sum to 1; after the reset of the constructor
\* or of resample every weight is n = 1 / size.
C11_WeightsNormalized ==
    /\ \A k \in 1..Size : weights.num[k] >= 0
    /\ weights.den > 0
    /\ SeqSum(weights.num) = weights.den
    /\ (resampled \/ updates = 0) => weights = Uniform

\* Reached: after two updates without resampling in the second, a slot was
\* eliminated (weight 0) and the others share the whole weight.
C11_Witness ==
    /\ Idle /\ updates >= 2 /\ ~resampled
    /\ weights # Uniform
    /\ \E k \in 1..Size : weights.num[k] = 0

\* The last update was called with a still control and a scan of zeros.
StillNoReturn ==
    Idle /\ updates >= 1 /\ Still(before.control) /\ measurement = NoReturn

Pose(ns, h) == ns[h].location

Slots == [k \in 1..Size |-> k]

\* How often slot k is in the array resample returns for the draw rk.
Copies(w, rk, k) ==
    LET out == Resample(Slots, w, rk)
    IN  Cardinality({m \in 1..Len(out) : out[m] = k})

\* C13: when every weight equals n, resample returns for every draw r in
\* [0, n), r = 0 included, each input particle exactly once.
C13_UniformResampleIdentity ==
    weights = Uniform =>
        \A rk \in 0..(RDen - 1) : \A k \in 1..Size : Copies(weights, rk, k) = 1

\* C14: for any normalized weights and any draw r in [0, n), resample emits
\* particle i at least floor(weights[i] * size) times.
C14_ResampleFloor ==
    \A rk \in 0..(RDen - 1) : \A k \in 1..Size :
        Copies(weights, rk, k) >= (weights.num[k] * Size) \div weights.den

\* The nodes predict created in the current update, in slot order.
Created == [k \in 1..Size |-> next_id - Size + k - 1]

\* 1 / sum(w^2) < size * frac in plain integers, for denominators whose
\* square fits.
EssSmall(w) ==
    FracDen * w.den * w.den
        < Size * FracNum * SeqSum([k \in 1..Size |-> w.num[k] * w.num[k]])

\* C15: update resamples exactly when effective_sample_size() is below
\* resample_size after weighting.  If it does, the particle array becomes
\* the resampled array, every node in it is a leaf, and every predicted node
\* was trimmed (one that got no slot is detached); if not, the particle array
\* is the array of predicted nodes in slot order, each a leaf and trimmed.
C15_ResampleBranch ==
    (pc = "map") =>
        /\ resampled <=> EssBelow(before.weighted)
        /\ before.weighted.den <= 10000 =>
              (resampled <=> EssSmall(before.weighted))
        /\ IF resampled
           THEN /\ \E rk \in 0..(RDen - 1) :
                      new_particles = Resample(Created, before.weighted, rk)
                /\ particles = new_particles
                /\ weights = Uniform
                /\ \A k \in 1..Size :
                      /\ nodes[particles[k]].leaf
                      /\ Created[k] \notin ParticleSet =>
                            /\ nodes[Created[k]].parent = NULL
                            /\ ~nodes[Created[k]].leaf
           ELSE /\ particles = Created
                /\ weights = before.weighted
                /\ \A k \in 1..Size :
                      /\ nodes[particles[k]].leaf
                      /\ Trim(Heap, particles[k]) = Heap

\* Reached: a resampling update after which two predicted nodes share the
\* slots and the third is detached.
C15_Witness ==
    /\ pc = "map" /\ resampled
    /\ Cardinality(ParticleSet) = 2
    /\ \E k \in 1..Size : nodes[Created[k]].parent = NULL

\* start_index during the last update (increment ran at its end), and the
\* beams it sampled that reported a range.
SampledIndex == (start_index + RangeSize - 1) % RangeSize

SampledBeams ==
    LET beams == Beams(SampledIndex)
    IN  {beams[j] : j \in {m \in 1..Len(beams) : measurement[beams[m] + 1] # 0}}

\* The cells ray_trace visits for beam b from the pose of slot k.
BeamCells(k, b) ==
    LET robot_location == nodes[particles[k]].location
    IN  RayTrace(robot_location, LocAdd(robot_location, measurement[b + 1], Rot(b)), {})

\* How many calls map_update(value, x, y) the last update made for node h.
Writes(h, value, x, y) ==
    Cardinality({j \in 1..Len(log) :
                    /\ log[j].node = h /\ log[j].value = value
                    /\ log[j].x = x /\ log[j].y = y})

\* The cells of BeamCells(k, b) from the first to the one at position last.
FreeWritten(k, b, last) ==
    LET cells == BeamCells(k, b)
    IN  \A j \in 1..(Len(cells) - last) :
            Writes(particles[k], 0, cells[j].x, cells[j].y) >= 1

\* map_update(true, ...) was called for the terminal cell of beam b of slot
\* k once per slot that holds the node and per beam that ends there.
OccupiedWrittenOnce(k, b) ==
    LET cells == BeamCells(k, b)
        end == cells[Len(cells)]
        same == {c \in SampledBeams :
                    LET other == BeamCells(k, c)
                    IN  other[Len(other)].x = end.x /\ other[Len(other)].y = end.y}
    IN  Writes(particles[k], 1, end.x, end.y)
            = Cardinality({j \in 1..Size : particles[j] = particles[k]})
                * Cardinality(same)

\* C16: for every sampled beam with a non-zero range, update calls
\* map_update(false, cx, cy) for every cell the ray visits except the last,
\* the one before the last included, and map_update(true, cx, cy) exactly
\* once, for the terminal cell.
C16_BeamWrites ==
    (Idle /\ updates >= 1) =>
        \A k \in 1..Size : \A b \in SampledBeams :
            FreeWritten(k, b, 1) /\ OccupiedWrittenOnce(k, b)

\* C17: ray_trace(from, to, visit) with a visitor that never returns true
\* calls visit 1 + |floor(to.x) - floor(from.x)| + |floor(to.y) - floor(from.y)|
\* times, first on the cell of from and last on the cell of to, each call one
\* unit step along one axis from the previous cell, with n counting down by
\* one per call to 0 on the last call.
C17_RayTraceCells ==
    (pc = "traced") =>
        LET from == before.from
            to == before.to
            count == 1 + Abs(Floor(to.x) - Floor(from.x))
                       + Abs(Floor(to.y) - Floor(from.y))
        IN  /\ Len(log) = count
            /\ log[1].x = Floor(from.x) /\ log[1].y = Floor(from.y)
            /\ log[count].x = Floor(to.x) /\ log[count].y = Floor(to.y)
            /\ \A j \in 1..count : log[j].n = count - j
            /\ \A j \in 1..(count - 1) :
                  Abs(log[j + 1].x - log[j].x) + Abs(log[j + 1].y - log[j].y) = 1

\* The positions on the chain of h whose node has an entry at cell c.
EntryPositions(h, c) ==
    LET chain == Chain(nodes, h)
    IN  {j \in 1..Len(chain) : HasEntry(chain[j], c)}

\* The node nearest to h on its chain that has an entry at c.
Nearest(h, c) ==
    LET chain == Chain(nodes, h)
        first == CHOOSE j \in EntryPositions(h, c) :
                    \A k \in EntryPositions(h, c) : j <= k
    IN  chain[first]

\* C18: dp_map_t.lookup(cx, cy, node) returns the value stored at the cell
\* under the id of the nearest node on the chain node, node.parent, ... that
\* has an entry there (true for occupied, false for free), and false when no
\* node on the chain has an entry.
C18_LookupNearest ==
    \A h \in Handles : \A c \in ProbeCells :
        Lookup(map, nodes, c[1], c[2], h) =
            IF EntryPositions(h, c) = {}
            THEN FALSE
            ELSE map[c][nodes[Nearest(h, c)].id] = 1

\* Reached: a particle reads one cell occupied and another free from
\* entries of proper ancestors, and a third cell free that has a table but
\* no entry on the particle's chain.
C18_Witness ==
    /\ Idle
    /\ \E k \in 1..Size : \E c1, c2, c3 \in Cells :
          LET h == particles[k]
          IN  /\ EntryPositions(h, c1) # {} /\ Nearest(h, c1) # h
              /\ map[c1][nodes[Nearest(h, c1)].id] = 1
              /\ Lookup(map, nodes, c1[1], c1[2], h)
              /\ EntryPositions(h, c2) # {} /\ Nearest(h, c2) # h
              /\ map[c2][nodes[Nearest(h, c2)].id] = 0
              /\ ~Lookup(map, nodes, c2[1], c2[2], h)
              /\ EntryPositions(h, c3) = {}
              /\ ~Lookup(map, nodes, c3[1], c3[2], h)

\* C19: for every value v (free or occupied), cell and id, lookup_by_id
\* after update_by_id(v, cx, cy, id) returns v, also for v = free and for
\* a cell that had no row or table; the entries under other cells or other
\* ids are unchanged.  Every write the sensor writer stored in the last
\* update reads back under the writer's id.
C19_UpdateThenLookupById ==
    /\ \A c \in ProbeCells : \A id \in 0..next_id : \A v \in {0, 1} :
          LET m == UpdateById(map, v, c[1], c[2], id)
          IN  /\ LookupById(m, c[1], c[2], id) = v
              /\ DOMAIN m = Cells \cup {c}
              /\ \A d \in Cells \ {c} : m[d] = map[d]
              /\ DOMAIN m[c] = {id} \cup (IF c \in Cells THEN DOMAIN map[c] ELSE {})
              /\ \A other \in DOMAIN m[c] \ {id} : m[c][other] = map[c][other]
    /\ Idle => \A e \in LogSet :
          e.ret => LookupById(map, e.x, e.y, nodes[e.node].id) = e.value

\* Reached: the last update stored "free" under a particle's id at a cell
\* that had no table before the update, next to a cell where another id
\* kept its entry.
C19_Witness ==
    /\ Idle
    /\ \E e \in LogSet :
          /\ e.ret /\ e.value = 0
          /\ <<e.x, e.y>> \notin DOMAIN before.map
          /\ LookupById(map, e.x, e.y, nodes[e.node].id) = 0
          /\ \E d \in DOMAIN before.map : \E id \in Ids :
                /\ LookupById(before.map, d[1], d[2], id) # -1
                /\ LookupById(map, d[1], d[2], id) = LookupById(before.map, d[1], d[2], id)

\* C20: dp_slam_t.sample(x_min, x_max, y_min, y_max) returns the pose of one
\* of the current particles together with a grid over x_min <= x < x_max,
\* y_min <= y < y_max in which every cell equals map.lookup(x, y, that
\* particle): true when the nearest entry on the particle's ancestry is
\* occupied, false when it is free or when there is none.
C20_SampleGrid ==
    /\ (Idle /\ ok) => \A rk \in 0..(RDen - 1) :
                          FilterSample(particles, weights, rk) \in ParticleSet
    /\ sampled # NoSample =>
          \E k \in 1..Size :
             LET h == particles[k]
             IN  /\ sampled.location = nodes[h].location
                 /\ DOMAIN sampled.map = RegionCells(sampled.region)
                 /\ \A c \in RegionCells(sampled.region) :
                       sampled.map[c] =
                          IF EntryPositions(h, c) = {}
                          THEN FALSE
                          ELSE map[c][nodes[Nearest(h, c)].id] = 1

\* Reached: sample returned a particle at another pose than the first; its
\* grid has an occupied cell recorded by a proper ancestor, a free cell and a
\* cell without entry, and differs from the grid of another current particle.
C20_Witness ==
    /\ sampled # NoSample
    /\ sampled.location # nodes[particles[1]].location
    /\ \E c1, c2, c3 \in RegionCells(sampled.region) :
          /\ sampled.map[c1] /\ ~sampled.map[c2] /\ ~sampled.map[c3]
          /\ \E k \in 1..Size :
                /\ sampled.location = nodes[particles[k]].location
                /\ sampled.map = GetMap(map, nodes, sampled.region, particles[k])
                /\ EntryPositions(particles[k], c1) # {}
                /\ Nearest(particles[k], c1) # particles[k]
                /\ EntryPositions(particles[k], c2) # {}
                /\ EntryPositions(particles[k], c3) = {}
    /\ \E j \in 1..Size :
          sampled.map # GetMap(map, nodes, sampled.region, particles[j])

\* 10^10 and 1000^k in base 10000.
BigFloor == BigMul(Big(100000), Big(100000))

RECURSIVE BigThousand(_)
BigThousand(k) == IF k = 0 THEN Big(1) ELSE BigMulDigit(BigThousand(k - 1), 1000, 0)

\* The sum of line 719 over the slots whose weight was above the threshold,
\* as a numerator over before.weights.den * 1000^k.
SumNum ==
    SeqSum([j \in 1..Size |->
               IF AboveThreshold(before.weights, j)
               THEN before.weights.num[j] * before.liks[j].q ELSE 0])

\* sum <= 0.0000000001
SumAtFloor ==
    ~BigLess(BigMul(Big(before.weights.den), BigThousand(before.liks[1].k)),
             BigMul(Big(SumNum), BigFloor))

\* C21: when the sum of the weights computed by weight is not above 1e-10,
\* weight leaves every weight at n = 1 / size instead of dividing by the sum.
C21_UnderflowReset ==
    (pc = "weighted" /\ SumAtFloor) => weights = Uniform

\* Reached: the weights were not uniform, the likelihoods were small but not
\* all zero, the sum was positive and at most 1e-10, and weight left every
\* slot at n.
C21_Witness ==
    /\ pc = "weighted"
    /\ before.weights # Uniform
    /\ SumNum > 0 /\ SumAtFloor
    /\ \E j, k \in 1..Size :
          before.weights.num[j] * before.liks[j].q
             # before.weights.num[k] * before.liks[k].q
    /\ weights = Uniform

\* C22: odometry_motion_model_t.sample(control, pose) returns a pose equal to
\* its input when control.still() holds, whatever a1..a4 are, and, still or
\* moving, leaves the x, y and angle of the pose object passed in as they
\* were.  With the coefficients of the filter the pose returned is the one
\* predict gives the new node.
C22_SampleKeepsPose ==
    (pc = "moved") =>
        /\ Still(before.control) =>
              LocEquals(sampled.locs[sampled.ret], before.locs[1])
        /\ sampled.locs[1] = before.locs[1]
        /\ before.a = <<A1, A2, A3, A4>> =>
              sampled.locs[sampled.ret]
                 = MotionSample(before.control, before.locs[1], before.dev)

\* Reached: a moving control returned a pose that differs from the one
\* passed in, which kept its fields.
C22_Witness ==
    /\ pc = "moved"
    /\ ~Still(before.control)
    /\ before.a # <<A1, A2, A3, A4>>
    /\ ~LocEquals(sampled.locs[sampled.ret], before.locs[1])
    /\ sampled.locs[1] = before.locs[1]

\* The heap on which the trim loop of update calls trim for slot i.
Marked ==
    IF resampled THEN Heap ELSE [Heap EXCEPT !.nodes[particles[i]].leaf = TRUE]

\* One call of map.erase or map.rename: present says that the cell has a
\* table with an entry under id when the call is made.
MapCall(s, op, x, y, id) ==
    [op |-> op, x |-> x, y |-> y, id |-> id,
     present |-> <<x, y>> \in DOMAIN s.map /\ id \in DOMAIN s.map[<<x, y>>]]

\* The calls of map.erase in the loop of lines 876-882, from index j on.
RECURSIVE EraseCalls(_, _, _)
EraseCalls(s, h, j) ==
    LET cells == s.arrays[s.nodes[h].modified_cells]
    IN  IF ~s.ok \/ j > Len(cells) THEN <<>>
        ELSE <<MapCall(s, "erase", cells[j][1], cells[j][2], s.nodes[h].id)>>
             \o EraseCalls(Erase(s, cells[j][1], cells[j][2], s.nodes[h].id), h, j + 1)

\* The calls of map.rename in the loop of lines 888-896, from index j on.
RECURSIVE RenameCalls(_, _, _)
RenameCalls(s, h, j) ==
    LET node == s.nodes[h]
        parent == s.nodes[node.parent]
        cells == s.arrays[node.modified_cells]
    IN  IF ~s.ok \/ j > Len(cells) \/ node.modified_cells = parent.modified_cells
        THEN <<>>
        ELSE <<MapCall(s, "rename", cells[j][1], cells[j][2], node.id)>>
             \o RenameCalls(
                  [Rename(s, cells[j][1], cells[j][2], node.id, parent.id)
                      EXCEPT !.arrays[parent.modified_cells] = Append(@, cells[j])],
                  h, j + 1)

\* The calls of map.erase and map.rename that h.trim(map) makes on the heap
\* s, in order, those of the recursive calls included.
RECURSIVE TrimCalls(_, _)
TrimCalls(s, h) ==
    IF ~s.ok \/ s.nodes[h].parent = NULL THEN <<>>
    ELSE
      LET node == s.nodes[h]
          p == node.parent
          parent == s.nodes[p]
      IN  IF parent.id = 0 THEN <<>>
          ELSE IF ~node.leaf /\ node.children = 0 THEN
            LET decremented == [s EXCEPT !.nodes[p].children = @ - 1]
            IN  EraseCalls(decremented, h, 1)
                \o TrimCalls(EraseCells(decremented, h, 1), p)
          ELSE IF parent.children = 1 /\ parent.id # 0 THEN
            LET merged == MergeCells(s, h, 1)
            IN  RenameCalls(s, h, 1)
                \o TrimCalls([merged EXCEPT
                                !.nodes[h].modified_cells = parent.modified_cells,
                                !.nodes[h].id = parent.id,
                                !.nodes[h].parent = parent.parent],
                             h)
          ELSE TrimCalls(s, p)

\* The calls the trim of slot i is about to make.
PendingCalls == TrimCalls(Marked, particles[i])

\* C23: in every sequence of update calls, each map.erase(x, y, id) and
\* map.rename(x, y, old_id, new_id) that trim makes targets a cell whose table
\* exists and holds an entry under the given (old) id, and trim completes.
C23_TrimTargetsPresent ==
    (pc = "trim" /\ ok) =>
        /\ \A j \in 1..Len(PendingCalls) : PendingCalls[j].present
        /\ Trim(Marked, particles[i]).ok

\* Reached: an earlier update erased the entries of a dead branch, and the
\* trim about to run renames the entries of a node that merges into its
\* parent.
C23_Witness ==
    /\ pc = "trim" /\ ok
    /\ \E h \in Handles :
          /\ h # 0 /\ nodes[h].parent = NULL /\ ModifiedCells(h) # <<>>
          /\ \A c \in ModifiedSet(h) : ~HasEntry(h, c)
    /\ \E j \in 1..Len(PendingCalls) :
          PendingCalls[j].op = "rename" /\ PendingCalls[j].present

\* C24: after any sequence of update calls no two distinct nodes on the
\* parent chains of the current particles, the root included, have the same
\* id, also after merges have made children take over their parents' ids;
\* and no node other than the root ever has id 0.
C24_UniqueIds ==
    /\ Idle => \A h, g \in Live : h # g => nodes[h].id # nodes[g].id
    /\ \A h \in Handles \ {0} : nodes[h].id # 0

\* Reached: a live node that took over its parent's id by a merge is the
\* child of another such node, below the root.
C24_Witness ==
    /\ Idle
    /\ \E h \in Live :
          LET p == nodes[h].parent
          IN  /\ nodes[h].id # h
              /\ p \notin {NULL, 0}
              /\ nodes[p].id # p
              /\ nodes[p].parent = 0

\* The beam indices the sensor model reads when start_index is index.
BeamSet(index) == {Beams(index)[j] : j \in 1..Len(Beams(index))}

\* start_index during the update that was made last, counted from the
\* number of updates made.
LastIndex == (updates - 1) % RangeSize

\* The cells ray_trace visits for beam b of the last update from the pose of
\* slot k.
LastBeamCells(k, b) ==
    LET robot_location == nodes[particles[k]].location
        calls == RayTrace(robot_location,
                          LocAdd(robot_location, measurement[b + 1], Rot(b)), {})
    IN  {<<calls[j].x, calls[j].y>> : j \in 1..Len(calls)}

\* C25: with size a multiple of samples, start_index stays in
\* 0 .. range_size - 1, every update advances it by one modulo range_size,
\* every beam index 0 .. size - 1 belongs to the samples beams of exactly one
\* value of start_index, and the sensor writes of an update are those of the
\* beams start_index, start_index + range_size, ... of its start_index.
C25_BeamSweep ==
    /\ ScanSize % Samples = 0
    /\ start_index \in 0..(RangeSize - 1)
    /\ start_index = updates % RangeSize
    /\ \A index \in 0..(RangeSize - 1) : Len(Beams(index)) = Samples
    /\ \A b \in 0..(ScanSize - 1) :
          Cardinality({index \in 0..(RangeSize - 1) : b \in BeamSet(index)}) = 1
    /\ (Idle /\ updates >= 1) =>
          LET read == {b \in BeamSet(LastIndex) : measurement[b + 1] # 0}
          IN  /\ \A e \in LogSet : \E k \in 1..Size : \E b \in read :
                    e.node = particles[k] /\ <<e.x, e.y>> \in LastBeamCells(k, b)
              /\ \A k \in 1..Size : \A b \in read : \E e \in LogSet :
                    /\ e.node = particles[k] /\ e.value = 1
                    /\ <<e.x, e.y>> \in LastBeamCells(k, b)

\* Reached: after more than range_size updates start_index has wrapped
\* around twice and the last update wrote the cells of the second beam.
C25_Witness ==
    /\ Idle /\ updates > 2 * RangeSize
    /\ start_index = 0 /\ LastIndex = 1
    /\ measurement[2] # 0
    /\ \E e \in LogSet : e.value = 1 /\ e.ret

\* The trim loop is about to call trim on a node that is no leaf, has no
\* children and whose parent is not the root.
DeadCallPending ==
    /\ pc = "trim" /\ ok
    /\ LET node == Marked.nodes[particles[i]]
       IN  /\ node.parent # NULL
           /\ ~node.leaf /\ node.children = 0
           /\ node.parent # 0

\* The node h is removed in the heap s: it is unlinked from its parent and
\* none of its cells has an entry under its id.
Removed(s, h) ==
    /\ s.nodes[h].parent = NULL
    /\ \A c \in ModifiedSet(h) : LookupById(s.map, c[1], c[2], nodes[h].id) = -1

Entries(m) == {e \in (DOMAIN m) \X (0..next_id) : e[2] \in DOMAIN m[e[1]]}

\* C27: within one update all trimming is done before any sensor write.  No
\* writer call is made up to the end of the trim loop; the writes then
\* change no node's id, parent or children and no entry that exists; every
\* entry they create is keyed by the id that a node of the final particle
\* array has after the trim, and its cell is in that node's modified_cells;
\* a node predict created that is not in the final array has no entry, is
\* unlinked, and no unlinked node has an entry.
C27_TrimBeforeWrites ==
    [][ /\ pc' \in {"trim", "map"} => log' = <<>>
        /\ pc = "map" =>
              /\ \A h \in Handles :
                    /\ nodes'[h].id = nodes[h].id
                    /\ nodes'[h].parent = nodes[h].parent
                    /\ nodes'[h].children = nodes[h].children
              /\ \A e \in Entries(map) : e \in Entries(map') /\ map'[e[1]][e[2]] = map[e[1]][e[2]]
              /\ \A e \in Entries(map') \ Entries(map) :
                    \E k \in 1..Size :
                       /\ nodes[particles'[k]].id = e[2]
                       /\ \E j \in 1..Len(arrays'[nodes[particles'[k]].modified_cells]) :
                             arrays'[nodes[particles'[k]].modified_cells][j] = e[1]
              /\ \A k \in 1..Size :
                    (\A j \in 1..Size : particles'[j] # Created[k]) =>
                       /\ nodes'[Created[k]].parent = NULL
                       /\ \A e \in Entries(map') : e[2] # nodes'[Created[k]].id
              /\ \A h \in Handles \ {0} :
                    nodes'[h].parent = NULL =>
                       \A e \in Entries(map') : e[2] # nodes'[h].id
      ]_vars

\* Reached: an update that resampled has written: a node that predict
\* created is not in the final array, and a surviving node that took over
\* its parent's id in the trim created an entry under that id.
C27_Witness ==
    /\ Idle /\ resampled
    /\ \E k \in 1..Size : Created[k] \notin ParticleSet
    /\ \E e \in LogSet :
          /\ e.ret
          /\ e.node \in ParticleSet
          /\ nodes[e.node].id # e.node
          /\ LookupById(map, e.x, e.y, nodes[e.node].id) = e.value
          /\ <<e.x, e.y>> \in ModifiedSet(e.node)

\* update has run up to the trim loop: predict, weight and, when
\* resampling, lines 960-964.
Predicted == pc = "trim" /\ i = 1

\* What predict did, but for the leaf flag of the new nodes: slot k holds a
\* new node with an id no node had, its parent is the particle slot k held,
\* it has no children and an empty modified_cells of its own; each old
\* particle has one more child per new node and leaf == false; every other
\* node and the map are as they were.
PredictEffect ==
    /\ \A k \in 1..Size :
          LET c == particles[k]
              p == before.particles[k]
          IN  /\ c \notin DOMAIN before.nodes
              /\ \A h \in DOMAIN before.nodes : before.nodes[h].id # nodes[c].id
              /\ \A j \in 1..Size : j # k => nodes[particles[j]].id # nodes[c].id
              /\ nodes[c].parent = p
              /\ nodes[c].children = 0
              /\ ModifiedCells(c) = <<>>
              /\ \A h \in Handles \ {c} : nodes[h].modified_cells # nodes[c].modified_cells
              /\ nodes[p].children = before.nodes[p].children
                    + Cardinality({j \in 1..Size : before.particles[j] = p})
              /\ ~nodes[p].leaf
    /\ \A h \in DOMAIN before.nodes :
          (\A k \in 1..Size : before.particles[k] # h) => nodes[h] = before.nodes[h]
    /\ map = before.map

\* C28: predict, as dp_slam_t uses it, returns an array whose i-th entry is
\* a newly created leaf node with a fresh id, parent particles[i] and empty
\* modified_cells; it adds one to particles[i].children per child, clears
\* particles[i].leaf and leaves the map unchanged.
C28_PredictLeaves ==
    Predicted => PredictEffect /\ \A k \in 1..Size : nodes[particles[k]].leaf

\* C28, amended: the same, except that the new nodes have leaf == false when
\* predict returns; the flag is true only where update set it after
\* resampling, on the nodes that kept a slot.
C28_PredictAmended ==
    Predicted =>
        /\ PredictEffect
        /\ \A k \in 1..Size :
              nodes[particles[k]].leaf
                 <=> (resampled /\ \E j \in 1..Size : new_particles[j] = particles[k])

\* Reached: two slots held the same particle, which got two more children;
\* no resampling followed and the new nodes are not marked.
C28_Witness ==
    /\ Predicted /\ ~resampled
    /\ before.particles[1] = before.particles[2]
    /\ nodes[before.particles[1]].children >= 2
    /\ \A k \in 1..Size : ~nodes[particles[k]].leaf

\* a * b = c * d, for products beyond the integers of the checker.
SameProduct(a, b, c, d) ==
    LET l == BigMul(Big(a), Big(b))
        r == BigMul(Big(c), Big(d))
    IN  ~BigLess(l, r) /\ ~BigLess(r, l)

\* C29: weight sets to 0 every slot whose weight is at or below the
\* threshold, whatever the weight model returns for it, and multiplies every
\* other weight by the weight model's value (the result is then divided by
\* the sum); a slot at 0 stays at 0 through later weight calls until
\* resample or the reset of an underflowing sum puts every weight at n.
C29_ThresholdZero ==
    (pc = "weighted" /\ ~SumAtFloor) =>
        \A j \in 1..Size :
           /\ ~AboveThreshold(before.weights, j) => weights.num[j] = 0
           /\ before.weights.num[j] = 0 => weights.num[j] = 0
           /\ AboveThreshold(before.weights, j) =>
                 SameProduct(weights.num[j], SumNum,
                             before.weights.num[j] * before.liks[j].q, weights.den)

\* Reached: one slot was at 0 already and stays there, another was positive
\* but not above the threshold and is set to 0, both with a positive value
\* of the weight model; a third slot is multiplied.
C29_Witness ==
    /\ pc = "weighted" /\ ~SumAtFloor
    /\ \E j, k, l \in 1..Size :
          /\ before.weights.num[j] = 0 /\ before.liks[j].q > 0
          /\ weights.num[j] = 0
          /\ before.weights.num[k] > 0 /\ ~AboveThreshold(before.weights, k)
          /\ before.liks[k].q > 0 /\ weights.num[k] = 0
          /\ AboveThreshold(before.weights, l) /\ weights.num[l] > 0

\* The slot of the input array that holds node h.
SlotOf(h) == CHOOSE k \in 1..Size : particles[k] = h

\* C30: resample returns exactly size entries, each of them one of the
\* nodes of the input array (the node itself, so duplicates are one node),
\* taken at non-decreasing input indices; with weights that sum to 1 and r
\* in [0, n) no index beyond size - 1 is read, and afterwards every weight
\* is n.
C30_ResampleDraw ==
    (pc = "drawn" /\ SeqSum(before.weights.num) = before.weights.den
                  /\ before.rk \in 0..(RDen - 1)) =>
        /\ Len(new_particles) = Size
        /\ \A m \in 1..Size : \E k \in 1..Size : new_particles[m] = particles[k]
        /\ \A m \in 1..(Size - 1) :
              SlotOf(new_particles[m]) <= SlotOf(new_particles[m + 1])
        /\ weights = Uniform

\* Reached: the weights were not uniform, one of them 0, r was positive, and
\* the draw took the first node twice and the last node once.
C30_Witness ==
    /\ pc = "drawn"
    /\ before.weights # Uniform /\ before.rk > 0
    /\ \E k \in 1..Size : before.weights.num[k] = 0
    /\ new_particles[1] = particles[1] /\ new_particles[2] = particles[1]
    /\ new_particles[Size] = particles[Size]
    /\ weights = Uniform

\* The index of the first call of `calls` on a cell of occ, 0 when none is.
FirstOccupied(calls, occ) ==
    LET hits == {j \in 1..Len(calls) : <<calls[j].x, calls[j].y>> \in occ}
    IN  IF hits = {} THEN 0 ELSE CHOOSE j \in hits : \A k \in hits : j <= k

\* The cells of the segment prob_ray traces, in ray order: the calls made to
\* a visitor that never returns true.
TracedSegment == RayTrace(before.pose, sampled.end, {})

\* C31: once the visitor returns true for a cell, ray_trace calls it for no
\* later cell of the segment: prob_ray consults map_lookup for the cells from
\* the pose up to and including the first occupied one, and for none beyond.
C31_StopAtFirstHit ==
    (pc = "scored") =>
        LET first == FirstOccupied(TracedSegment, before.occ)
            count == IF first = 0 THEN Len(TracedSegment) ELSE first
        IN  /\ Len(log) = count
            /\ \A j \in 1..count : log[j] = TracedSegment[j]
            /\ \A j \in 1..(count - 1) : <<log[j].x, log[j].y>> \notin before.occ

\* Reached: the segment has three cells, the second and the third are
\* occupied, and map_lookup was consulted for the first two only.
C31_Witness ==
    /\ pc = "scored"
    /\ Len(TracedSegment) = 3
    /\ FirstOccupied(TracedSegment, before.occ) = 2
    /\ <<TracedSegment[3].x, TracedSegment[3].y>> \in before.occ
    /\ Len(log) = 2

\* What prob_ray is to return for a ray whose cells are `segment`, in ray
\* order: 1.0 when none is occupied, and otherwise the density of the
\* measured range around the distance to the center of the first occupied.
Score(segment) ==
    LET first == FirstOccupied(segment, before.occ)
    IN  IF first = 0 THEN 1000
        ELSE ProbNormal(before.range * before.range,
                        Distance2(before.pose,
                                  CellCenter(segment[first].x, segment[first].y)))

\* The end of the beam's ray of length max_ray: from the pose in the world
\* direction hit.angle, the robot's heading plus the beam's angle.
BeamEnd ==
    Location(before.pose.x + MaxRay * Cos4(sampled.hit.angle),
             before.pose.y + MaxRay * Sin4(sampled.hit.angle), 0)

\* C32: prob_ray returns 1.0 when map_lookup reports no occupied cell among
\* the cells of the beam's ray of length max_ray, and otherwise scores the
\* measured range against the distance from the pose to the center
\* (x + 0.5, y + 0.5) of the first occupied cell in ray order.
C32_FirstOccupiedScore ==
    (pc = "scored") => sampled.p = Score(RayTrace(before.pose, BeamEnd, {}))

\* C33: for every heading of the robot, the ray prob_ray traces leaves the
\* pose in direction hit.angle: it ends max_ray away in that direction, on
\* the half line from the pose through the point to which update traces the
\* same beam.
C33_ProbRayDirection ==
    (pc = "scored") =>
        /\ sampled.end.x = BeamEnd.x /\ sampled.end.y = BeamEnd.y
        /\ (sampled.end.x - before.pose.x) * before.range
              = (sampled.hit.x - before.pose.x) * MaxRay
        /\ (sampled.end.y - before.pose.y) * before.range
              = (sampled.hit.y - before.pose.y) * MaxRay

\* No cell is listed twice in modified_cells of h.
ListedOnce(h) ==
    \A j, k \in 1..Len(ModifiedCells(h)) :
        ModifiedCells(h)[j] = ModifiedCells(h)[k] => j = k

\* C34: after any sequence of update calls, for every node N on the parent
\* chain of a current particle, modified_cells of N is exactly the set of
\* cells that hold an entry keyed by N.id: each such cell is listed, each
\* listed cell holds such an entry, and no cell is listed twice.
C34_ModifiedCellsExact ==
    Idle => \A h \in Live :
                /\ ModifiedSet(h) = {c \in Cells : HasEntry(h, c)}
                /\ ListedOnce(h)

\* Reached: a node that holds several particle slots after resampling, took
\* over its parent's id and cells in a merge, and lists at least three cells.
C34_Witness ==
    /\ Idle
    /\ \E j, k \in 1..Size :
          /\ j # k /\ particles[j] = particles[k]
          /\ nodes[particles[j]].id # particles[j]
          /\ Len(ModifiedCells(particles[j])) >= 3
          /\ ModifiedSet(particles[j]) = {c \in Cells : HasEntry(particles[j], c)}

\* The last node of the parent chain of h.
ChainEnd(h) == Chain(nodes, h)[Len(Chain(nodes, h))]

\* C35: after construction and after every update the particle array has
\* exactly size entries, and each entry is a node, other than the root, that
\* has a parent and whose parent chain ends at the root.
C35_ParticlesRooted ==
    Idle =>
        /\ ok
        /\ Len(particles) = Size
        /\ \A k \in 1..Size :
              /\ particles[k] \in Handles \ {0}
              /\ nodes[particles[k]].parent # NULL
              /\ ChainEnd(particles[k]) = 0

\* Reached: an update that resampled and detached a dead branch has
\* returned; a node holds two slots and has a chain of at least three nodes.
C35_Witness ==
    /\ Idle /\ updates >= 2 /\ resampled
    /\ \E h \in Handles : nodes[h].parent = NULL /\ h # 0
    /\ \E j, k \in 1..Size :
          /\ j # k /\ particles[j] = particles[k]
          /\ Len(Chain(nodes, particles[j])) >= 3
          /\ ChainEnd(particles[j]) = 0

\* C36: resample never emits a particle whose weight is 0, for any draw r in
\* [0, n), r = 0 included, and also when the particle of weight 0 is in
\* slot 0.
C36_NoZeroWeightDrawn ==
    (pc = "drawn") =>
        \A m \in 1..Size : before.weights.num[SlotOf(new_particles[m])] > 0

\* The nodes predict created in the last update that hold, or are about to
\* hold, a particle slot.
Survivors ==
    IF pc = "trim" /\ resampled
    THEN {new_particles[k] : k \in 1..Size}
    ELSE ParticleSet

\* The particle from which predict made node h in the last update.
OriginOf(h) == before.particles[h - (next_id - Size) + 1]

\* The cells at which lookup found an entry on the chain of particle p when
\* the last update started.
KnownCells(p) ==
    {c \in DOMAIN before.map :
        \E a \in {Chain(before.nodes, p)[j] : j \in 1..Len(Chain(before.nodes, p))} :
            before.nodes[a].id \in DOMAIN before.map[c]}

\* C37: a particle's logical map is inherited and never rewritten: for every
\* particle P before an update and every particle P' that descends from it
\* in the update, lookup returns for P', at every cell at which P's chain had
\* an entry, the value it returned for P, at each step of the update and
\* when it has returned.
C37_MapInherited ==
    (pc \in {"trim", "map"} \/ (Idle /\ updates >= 1)) =>
        \A h \in Survivors : \A c \in KnownCells(OriginOf(h)) :
            Lookup(map, nodes, c[1], c[2], h)
               = Lookup(before.map, before.nodes, c[1], c[2], OriginOf(h))

\* Reached: an update that resampled and removed a dead branch with cells of
\* its own has returned; a particle that was merged into an ancestor reads a
\* cell free and another occupied as its origin did.
C37_Witness ==
    /\ Idle /\ updates >= 2 /\ resampled
    /\ \E d \in Handles : /\ nodes[d].parent = NULL /\ d # 0
                          /\ Len(ModifiedCells(d)) >= 1
    /\ \E h \in Survivors :
          /\ nodes[h].id # h
          /\ \E c1, c2 \in KnownCells(OriginOf(h)) :
                /\ Lookup(map, nodes, c1[1], c1[2], h)
                /\ ~Lookup(map, nodes, c2[1], c2[2], h)
                /\ Lookup(before.map, before.nodes, c1[1], c1[2], OriginOf(h))
                /\ ~Lookup(before.map, before.nodes, c2[1], c2[2], OriginOf(h))

\* The orders in which the trim loop can take the slots.
Orders == {o \in [1..Size -> 1..Size] : \A j, k \in 1..Size : o[j] = o[k] => j = k}

\* The trim loop of lines 967-969 taking the slots in the order o, from its
\* k-th call on.
RECURSIVE TrimInOrder(_, _, _)
TrimInOrder(s, o, k) ==
    IF k > Size THEN s ELSE TrimInOrder(Trim(s, particles[o[k]]), o, k + 1)

\* What the claim compares: for the nodes on the chains of the surviving
\* particles their id, parent, children and modified_cells as a set, and the
\* map.
TreeView(s) ==
    LET live == UNION {{Chain(s.nodes, new_particles[k])[j] :
                           j \in 1..Len(Chain(s.nodes, new_particles[k]))} :
                       k \in 1..Size}
    IN  [ok |-> s.ok,
         tree |-> [h \in live |->
                     [id |-> s.nodes[h].id, parent |-> s.nodes[h].parent,
                      children |-> s.nodes[h].children,
                      cells |-> {s.arrays[s.nodes[h].modified_cells][j] :
                                   j \in 1..Len(s.arrays[s.nodes[h].modified_cells])}]],
         map |-> s.map]

\* C38: for a fixed set of surviving particles, the ancestry tree (parent
\* links, ids, children counts, modified_cells as sets) and the map after
\* the trim loop are the same whatever the order in which the particles of
\* before the resampling are trimmed.
C38_TrimOrderIrrelevant ==
    (Predicted /\ resampled) =>
        \A o \in Orders :
            TreeView(TrimInOrder(Heap, o, 1)) = TreeView(TrimInOrder(Heap, Slots, 1))

\* The invocations of trim that h.trim(map) makes on the heap s, itself and
\* the recursive ones, in order: the node and the parent it has when called.
RECURSIVE TrimInvocations(_, _)
TrimInvocations(s, h) ==
    IF ~s.ok THEN <<>>
    ELSE
      LET node == s.nodes[h]
          p == node.parent
          here == <<[node |-> h, parent |-> p]>>
      IN  IF p = NULL THEN here
          ELSE IF s.nodes[p].id = 0 THEN here
          ELSE IF ~node.leaf /\ node.children = 0 THEN
            here \o TrimInvocations(
                       EraseCells([s EXCEPT !.nodes[p].children = @ - 1], h, 1), p)
          ELSE IF s.nodes[p].children = 1 /\ s.nodes[p].id # 0 THEN
            here \o TrimInvocations(
                       [MergeCells(s, h, 1) EXCEPT
                           !.nodes[h].modified_cells = s.nodes[p].modified_cells,
                           !.nodes[h].id = s.nodes[p].id,
                           !.nodes[h].parent = s.nodes[p].parent],
                       h)
          ELSE here \o TrimInvocations(s, p)

\* The invocations the trim of slot i is about to make.
PendingInvocations == TrimInvocations(Marked, particles[i])

\* C39: in every sequence of update calls, trim is never invoked on the root
\* nor on a node whose parent is null, so that the read of parent.id at its
\* start does not fail, and every call of trim returns after finitely many
\* recursive steps: at most two per node of the chain it starts from.
C39_TrimWellFounded ==
    (pc = "trim" /\ ok) =>
        /\ \A j \in 1..Len(PendingInvocations) :
              /\ PendingInvocations[j].node # 0
              /\ PendingInvocations[j].parent # NULL
        /\ Len(PendingInvocations) <= 2 * Len(Chain(nodes, particles[i]))
        /\ Trim(Marked, particles[i]).ok

\* Reached: a node detached as a dead branch exists, and the trim about to
\* run is invoked on one node twice, before and after its merge, and on
\* another node besides the particle.
C39_Witness ==
    /\ pc = "trim" /\ ok
    /\ \E d \in Handles : d # 0 /\ nodes[d].parent = NULL
    /\ \E j, k \in 1..Len(PendingInvocations) :
          j < k /\ PendingInvocations[j].node = PendingInvocations[k].node
    /\ \E j \in 1..Len(PendingInvocations) :
          PendingInvocations[j].node # particles[i]

\* C40: dp_slam_t.sample is read-only: a call between two updates leaves the
\* particle array, the weights, every node's id, parent, leaf, children and
\* modified_cells, the map entries and start_index as they were, so that the
\* next update starts from the same state with or without it.
C40_SampleReadOnly ==
    [][(pc = "idle" /\ pc' = "idle") =>
          /\ particles' = particles
          /\ weights' = weights
          /\ nodes' = nodes
          /\ arrays' = arrays
          /\ map' = map
          /\ start_index' = start_index
          /\ next_id' = next_id
          /\ ok' = ok]_vars

\* Reached: between two updates, with weights that are not uniform and a map
\* that has entries, sample has returned a grid with an occupied cell.
C40_Witness ==
    /\ Idle /\ updates >= 1 /\ updates < MaxUpdates
    /\ sampled # NoSample
    /\ weights # Uniform
    /\ \E c \in RegionCells(sampled.region) : sampled.map[c]

====
